---- MODULE Spec2Model ----
(***************************************************************************)
(* Fred's Portfolio CLI: the line-oriented command shell with directory    *)
(* navigation, command history, a scrollback viewport and a modal file     *)
(* pager; the Wikipedia CLI; and the SSH server that runs one program per  *)
(* connection.                                                             *)
(*                                                                         *)
(* Two programs of the repository implement the shell:                     *)
(*   variant = "fred"       src/file-picker/main.go (second program of the *)
(*                          file, lines 182-900)                           *)
(*   variant = "portfolio"  src/Portfolio/main.go                          *)
(* and variant = "wikipedia" is src/WikipediaCLI/main.go.                  *)
(*                                                                         *)
(* The other programs of the repository:                                   *)
(*   variant = "chat"        src/ChatgptCLI/main.go                        *)
(*   variant = "chatserver"  src/ChatgptCLI/serverversion/serverversion.go *)
(*   variant = "http"        src/http-codes/main.go                        *)
(*                                                                         *)
(* Strings are sequences of one-character strings, so that slicing,        *)
(* prefix tests, Split and Join are computed as the Go code computes them. *)
(* A fixed message of the program is one element of such a sequence.       *)
(***************************************************************************)
EXTENDS Integers, Sequences, FiniteSets, TLC

VARIABLES variant, input, directory, text, history, historyIndex, clihistory,
          fileViewMode, fileViewport, fileContent, ready, quit, viewport,
          showViewport, searching, query, content, pending, peer, session,
          textInput, passwordInput, submitted, isStreaming, showResponse,
          response, chatHistory, authenticated, authFailed, closed,
          globalResponse, isStreamComplete, cmds, streams, updates,
          state, status, err, checks

vars == <<variant, input, directory, text, history, historyIndex, clihistory,
          fileViewMode, fileViewport, fileContent, ready, quit, viewport,
          showViewport, searching, query, content, pending, peer, session,
          textInput, passwordInput, submitted, isStreaming, showResponse,
          response, chatHistory, authenticated, authFailed, closed,
          globalResponse, isStreamComplete, cmds, streams, updates,
          state, status, err, checks>>

\* the models of the chat CLI, one per session, the package-level variables
\* of the chat CLI, and its commands, streams and messages in flight
chatVars == <<textInput, passwordInput, submitted, isStreaming, showResponse,
              response, chatHistory, authenticated, authFailed, closed,
              globalResponse, isStreamComplete, cmds, streams, updates>>

\* the model of the HTTP status checker and its commands in flight
httpVars == <<state, status, err, checks>>

\* the state of the Wikipedia CLI and of the other connection of the server,
\* which no event of the shell touches
otherVars == <<showViewport, searching, query, content, pending, peer, session,
               chatVars, httpVars>>

(***************************************************************************)
(* Bounds of the model.                                                    *)
(***************************************************************************)
\* number of lines submitted in one session of the navigation model
MaxHist == 3
\* number of lines submitted in one session of the history-walk model
MaxWalk == 4
\* the number of lines a session of the command model submits
MaxCmd == 2
\* the number of lines a session of the completion model submits
MaxTab == 1
\* the number of lines a session of the error model submits
MaxSess == 2
\* the number of lines a session of the scrollback model submits
MaxScroll == 2
\* the length of the query typed into the Wikipedia CLI
MaxQuery == 2
\* the number of lines one connection of the server submits
MaxServ == 1
\* the number of questions asked in the chat CLI
MaxAsk == 3
\* the number of questions one session of the chat server asks
MaxServAsk == 1
\* the number of content chunks a completion streams
MaxChunks == 1
\* the length of the URL typed into the HTTP status checker
MaxUrl == 3

(***************************************************************************)
(* String helpers (Go slicing and package strings).                        *)
(***************************************************************************)
Take(s, n) == SubSeq(s, 1, n)

Drop(s, n) == SubSeq(s, n + 1, Len(s))

HasPrefix(s, p) == Len(s) >= Len(p) /\ Take(s, Len(p)) = p

Front(s) == SubSeq(s, 1, Len(s) - 1)

Last(s) == s[Len(s)]

RECURSIVE Split(_, _)
Split(s, c) ==
    IF \A i \in 1..Len(s) : s[i] # c
    THEN <<s>>
    ELSE LET i == CHOOSE k \in 1..Len(s) : s[k] = c /\ \A j \in 1..(k - 1) : s[j] # c
         IN  <<Take(s, i - 1)>> \o Split(Drop(s, i), c)

RECURSIVE Join(_, _)
Join(parts, c) ==
    IF Len(parts) = 0 THEN <<>>
    ELSE IF Len(parts) = 1 THEN parts[1]
    ELSE parts[1] \o <<c>> \o Join(Tail(parts), c)

(***************************************************************************)
(* The backing store.  A node is the sequence of names from the parent of  *)
(* the working directory of the process: <<>> is that parent, Cwd is the   *)
(* directory the program was started in (the sandbox root ".").            *)
(***************************************************************************)
NameW == <<"w">>
NameA == <<"a">>
NameH == <<".", "h">>
NameF == <<"f">>
NameS == <<".", "s">>
NameP == <<"p">>
NameQ == <<"q">>
NameConfig == <<"c", "o", "n", "f", "i", "g", ".", "g", "o">>
NameCab == <<"c", "a", "b">>
NameXY == <<"x", " ", "y">>
NameCb == <<"c", "b">>

Cwd == <<NameW>>

Dirs == { <<>>, Cwd, <<NameW, NameA>>, <<NameW, NameH>>, <<NameW, NameA, NameH>>,
          <<NameW, NameP>>, <<NameW, NameQ>> }

\* the regular files, with the number of lines each holds
FileLines ==
    ( <<NameW, NameF>>        :> 22 ) @@
    ( <<NameW, NameS>>        :> 21 ) @@
    ( <<NameW, NameA, NameF>> :> 25 ) @@
    ( <<NameW, NameA, NameS>> :> 23 ) @@
    ( <<NameW, NameP, NameConfig>> :> 3 ) @@
    ( <<NameW, NameQ, NameCab>> :> 2 ) @@
    ( <<NameW, NameQ, NameCb>>  :> 1 ) @@
    ( <<NameW, NameQ, NameXY>>  :> 1 )

Files == DOMAIN FileLines

NoNode == <<<<"!">>>>

\* path resolution of the operating system, from the working directory
RECURSIVE Walk(_, _)
Walk(node, segs) ==
    IF node = NoNode THEN NoNode
    ELSE IF Len(segs) = 0 THEN node
    ELSE IF node \notin Dirs THEN NoNode
    ELSE LET seg == Head(segs)
             next == IF seg = <<>> \/ seg = <<".">> THEN node
                     ELSE IF seg = <<".", ".">>
                          THEN (IF node = <<>> THEN node ELSE Front(node))
                     ELSE IF Append(node, seg) \in Dirs \cup Files
                          THEN Append(node, seg)
                     ELSE NoNode
         IN  Walk(next, Tail(segs))

Resolve(path) == Walk(Cwd, Split(path, "/"))

\* validatePath without the IsDir test
validatePathAnyNode(path) == Resolve(path) # NoNode

\* validatePath: the path exists and is a directory
validatePath(path) == Resolve(path) \in Dirs

\* string(content) of a file; the empty string is EmptyContent
EmptyContent == [file |-> NoNode, lines |-> 0]

ContentOf(node) == [file |-> node, lines |-> FileLines[node]]

\* os.ReadFile: the content, or the error
ReadFile(path) ==
    LET n == Resolve(path)
    IN  IF n \in Files THEN [ok |-> TRUE, content |-> ContentOf(n), err |-> <<>>]
        ELSE IF n \in Dirs
             THEN [ok |-> FALSE, content |-> EmptyContent,
                   err |-> <<"read ">> \o path \o <<": is a directory">>]
        ELSE [ok |-> FALSE, content |-> EmptyContent,
              err |-> <<"open ">> \o path \o <<": no such file or directory">>]

\* os.ReadDir: the entries of a directory sorted by name, nil on error
ReadDir(path) ==
    LET n == Resolve(path)
    IN  IF n = Cwd THEN << [name |-> NameH, isDir |-> TRUE], [name |-> NameS, isDir |-> FALSE],
                           [name |-> NameA, isDir |-> TRUE], [name |-> NameF, isDir |-> FALSE],
                           [name |-> NameP, isDir |-> TRUE], [name |-> NameQ, isDir |-> TRUE] >>
        ELSE IF n = <<NameW, NameA>>
             THEN << [name |-> NameH, isDir |-> TRUE], [name |-> NameS, isDir |-> FALSE],
                     [name |-> NameF, isDir |-> FALSE] >>
        ELSE IF n = <<NameW, NameP>>
             THEN << [name |-> NameConfig, isDir |-> FALSE] >>
        ELSE IF n = <<NameW, NameQ>>
             THEN << [name |-> NameCab, isDir |-> FALSE], [name |-> NameCb, isDir |-> FALSE],
                     [name |-> NameXY, isDir |-> FALSE] >>
        ELSE IF n = <<>> THEN << [name |-> NameW, isDir |-> TRUE] >>
        ELSE << >>

LowerOf == ("A" :> "a") @@ ("I" :> "i") @@ ("M" :> "m") @@ ("C" :> "c")

ToLowerChar(c) == IF c \in DOMAIN LowerOf THEN LowerOf[c] ELSE c

ToUpperChar(c) ==
    IF \E u \in DOMAIN LowerOf : LowerOf[u] = c
    THEN CHOOSE u \in DOMAIN LowerOf : LowerOf[u] = c
    ELSE c

ToLower(s) == [i \in 1..Len(s) |-> ToLowerChar(s[i])]

\* strings.Title of one word
Title(w) == IF Len(w) = 0 THEN w ELSE <<ToUpperChar(w[1])>> \o Tail(w)

IsSpace(c) == c \in {" ", "\t", "\n"}

\* strings.Fields: the maximal runs of non-space characters
RECURSIVE Fields(_)
Fields(s) ==
    IF Len(s) = 0 THEN <<>>
    ELSE IF IsSpace(s[1]) THEN Fields(Tail(s))
    ELSE LET n == IF \A i \in 1..Len(s) : ~IsSpace(s[i]) THEN Len(s)
                  ELSE (CHOOSE k \in 1..Len(s) :
                            IsSpace(s[k]) /\ \A j \in 1..(k - 1) : ~IsSpace(s[j])) - 1
         IN  <<Take(s, n)>> \o Fields(Drop(s, n))

(***************************************************************************)
(* Command words and fixed messages.                                       *)
(***************************************************************************)
CdPrefix   == <<"c", "d", " ">>
CatPrefix  == <<"c", "a", "t", " ">>
WikiPrefix == <<"w", "i", "k", "i", " ">>
EchoPrefix == <<"e", "c", "h", "o", " ">>
QrPrefix   == <<"q", "r", " ">>
YodaPrefix == <<"y", "o", "d", "a", " ">>
DotDot     == <<".", ".">>

CmdLs       == <<"l", "s">>
CmdHelp     == <<"h", "e", "l", "p">>
CmdClear    == <<"c", "l", "e", "a", "r">>
CmdJoke     == <<"j", "o", "k", "e">>
CmdPwd      == <<"p", "w", "d">>
CmdExit     == <<"e", "x", "i", "t">>
CmdWhoami   == <<"w", "h", "o", "a", "m", "i">>
CmdDate     == <<"d", "a", "t", "e">>
CmdNeofetch == <<"n", "e", "o", "f", "e", "t", "c", "h">>
CmdVersion  == <<"v", "e", "r", "s", "i", "o", "n">>
CmdSkills   == <<"s", "k", "i", "l", "l", "s">>
CmdContact  == <<"c", "o", "n", "t", "a", "c", "t">>
CmdCoinflip == <<"c", "o", "i", "n", "f", "l", "i", "p">>

NothingYet    == <<"nothing yet...">>
HiddenDirMsg  == <<"Access denied: Hidden directories are not accessible">>
HiddenFileMsg == <<"Access denied: Hidden files are not accessible">>
InvalidDirMsg == <<"Invalid directory: ">>
ReadErrMsg    == <<"Error reading file: ">>
UnknownMsg    == <<" is not a valid command, try running help for commands">>
HeaderBlock   == <<"headerView()">>
WelcomeFred   == <<"Welcome to Fred's Portfolio CLI!...">>
WelcomePortfolio == <<"Welcome to Fred's Portfolio CLI! Type 'help' for commands.">>

\* the outcomes of the network collaborators
JokeTexts == { <<"jokeData.Joke">>, <<"Error fetching joke: ", "err">>,
               <<"Error parsing joke: ", "err">> }

WikiTexts == { <<"\n", "search_result">>, <<"Error fetching Wikipedia summary: ", "err">> }

Yodaisms == { <<", mmm.">>, <<", yes.">>, <<", hmm.">>, <<", indeed.">> }

\* the ls listing of the file-picker shell: hidden entries are skipped
RECURSIVE FredListing(_)
FredListing(entries) ==
    IF Len(entries) = 0 THEN <<>>
    ELSE LET e == Head(entries)
         IN  (IF HasPrefix(e.name, <<".">>) THEN <<>>
              ELSE (IF e.isDir THEN <<"dir ">> ELSE <<"file ">>) \o e.name \o <<"\n">>)
             \o FredListing(Tail(entries))

\* the ls listing of the Portfolio shell: every entry
RECURSIVE PortfolioListing(_)
PortfolioListing(entries) ==
    IF Len(entries) = 0 THEN <<>>
    ELSE Head(entries).name \o <<"\n">> \o PortfolioListing(Tail(entries))

LsError(path) ==
    IF Resolve(path) \in Dirs THEN <<>> ELSE <<"Error reading directory: ", "err", "\n">>

\* the yoda transformation, for each choice of the random ending
YodaTexts(arg) ==
    LET words == Fields(arg)
        result == IF Len(words) >= 2 /\ ToLower(words[1]) = <<"i">>
                     /\ ToLower(words[2]) = <<"a", "m">>
                  THEN <<Title(words[2]), ToLower(words[1])>> \o SubSeq(words, 3, Len(words))
                  ELSE IF Len(words) >= 3
                       THEN <<Last(words)>> \o Front(words)
                  ELSE words
    IN  IF Len(words) < 2 THEN { <<"Yoda says: ">> \o arg \o <<", mmm.">> }
        ELSE { <<"Yoda says: ">> \o Join(result, " ") \o e : e \in Yodaisms }

(***************************************************************************)
(* The pager viewport (bubbles viewport.Model): height, scroll offset and  *)
(* the content it shows.                                                   *)
(***************************************************************************)
FredPagerHeight == 20
PortfolioPagerHeight == 24
\* header (3 lines) + footer (3 lines) + the exit instruction line
FredPagerMargin == 7
\* header (3 lines) + footer (3 lines)
PortfolioPagerMargin == 6

\* viewport.Model{}
ZeroViewport == [Height |-> 0, YOffset |-> 0, content |-> EmptyContent]

\* viewport.New(w, h) followed by SetContent(c)
NewViewport(h, c) == [Height |-> h, YOffset |-> 0, content |-> c]

Max(a, b) == IF a > b THEN a ELSE b

Min(a, b) == IF a < b THEN a ELSE b

maxYOffset(vp) == Max(0, vp.content.lines - vp.Height)

SetYOffset(vp, n) == [vp EXCEPT !.YOffset = Max(0, Min(n, maxYOffset(vp)))]

LineDown(vp, n) == IF vp.YOffset >= maxYOffset(vp) \/ n = 0 THEN vp ELSE SetYOffset(vp, vp.YOffset + n)

LineUp(vp, n) == IF vp.YOffset <= 0 \/ n = 0 THEN vp ELSE SetYOffset(vp, vp.YOffset - n)

\* the keys the default key map of the viewport binds
ViewportKeys == { "down", "j", "up", "k", "pgdown", "f", " ", "pgup", "b",
                  "d", "ctrl+d", "u", "ctrl+u" }

\* viewport.Model.Update for a key: the default key map of the viewport
ViewportUpdate(vp, key) ==
    IF key \notin ViewportKeys THEN vp
    ELSE IF key \in {"down", "j"} THEN LineDown(vp, 1)
    ELSE IF key \in {"up", "k"} THEN LineUp(vp, 1)
    ELSE IF key \in {"pgdown", "f", " "} THEN LineDown(vp, vp.Height)
    ELSE IF key \in {"pgup", "b"} THEN LineUp(vp, vp.Height)
    ELSE IF key \in {"d", "ctrl+d"} THEN LineDown(vp, vp.Height \div 2)
    ELSE IF key \in {"u", "ctrl+u"} THEN LineUp(vp, vp.Height \div 2)
    ELSE vp

(***************************************************************************)
(* The scrollback viewport of the shell (m.viewport): the rendered         *)
(* transcript, of which the viewport keeps the lines.                      *)
(***************************************************************************)
\* viewport.New(80, 24) of the Portfolio shell
PortfolioViewportHeight == 24
\* promptHeight of the file-picker shell
FredPromptHeight == 2
\* lipgloss.Height(headerView()) + lipgloss.Height(footerView()) of the
\* Portfolio shell: nine lines of header and the two lines of "\n"
PortfolioMargin == 11
\* strings.Count(m.headerView(), "\n") of the Portfolio shell
PortfolioHeaderNewlines == 8
\* the offset the Portfolio shell asks for to reach the bottom (1 << 16)
FarOffset == 65536

\* a message that is no key press (tea.WindowSizeMsg)
NoKey == "tea.WindowSizeMsg"

\* the keys the last block of Update keeps from the second viewport update
FredInputOnlyKeys ==
    {"ctrl+p", "ctrl+n", "u", "k", "b", "d", "f", "j", "pageup", "pagedown"}

PortfolioInputOnlyKeys == {"up", "down", "ctrl+p", "ctrl+n", "u", "k", "b"}

\* the elements of the texts of the model that hold line breaks
MultiLineAtoms ==
    { "\n", "\n\n", "\nName\n------\n", "headerView()",
      "Welcome to Fred's Portfolio CLI!...", "Available Commands:...",
      "neofetch art", "\nSkills:...", "You can find me on:..." }

\* the number of line breaks in one of them
AtomNewlines(c) ==
    CASE c = "\n" -> 1
      [] c = "\n\n" -> 2
      [] c = "\nName\n------\n" -> 3
      [] c = "headerView()" -> 7
      [] c = "Welcome to Fred's Portfolio CLI!..." -> 7
      [] c = "Available Commands:..." -> (IF variant = "fred" THEN 38 ELSE 36)
      [] c = "neofetch art" -> 27
      [] c = "\nSkills:..." -> 9
      [] c = "You can find me on:..." -> 3

RECURSIVE SumNewlines(_)
SumNewlines(atoms) ==
    IF atoms = <<>> THEN 0 ELSE AtomNewlines(Head(atoms)) + SumNewlines(Tail(atoms))

\* strings.Count(block, "\n")
Newlines(block) == SumNewlines(SelectSeq(block, LAMBDA c : c \in MultiLineAtoms))

\* the line breaks of the transcript: every block is followed by "\n"
RECURSIVE TranscriptNewlines(_)
TranscriptNewlines(h) ==
    IF h = <<>> THEN 0 ELSE Newlines(Head(h)) + 1 + TranscriptNewlines(Tail(h))

\* len(strings.Split(content, "\n")) of the content the file-picker shell shows
FredTranscriptLines(h) == TranscriptNewlines(h) + 1

\* the same for the Portfolio shell: header, blocks and one more "\n"
PortfolioTranscriptLines(h) == PortfolioHeaderNewlines + TranscriptNewlines(h) + 1 + 1

Scrollback(n) == [file |-> NoNode, lines |-> n]

GotoBottom(vp) == SetYOffset(vp, maxYOffset(vp))

\* viewport.SetContent of a text of n lines
SetContent(vp, n) ==
    LET v == [vp EXCEPT !.content = Scrollback(n)]
    IN  IF v.YOffset > n - 1 THEN GotoBottom(v) ELSE v

\* the number of lines of the content the last block of Update shows
ContentLines(h, rdy) ==
    IF variant = "fred" THEN FredTranscriptLines(h)
    ELSE IF rdy THEN PortfolioTranscriptLines(h)
    ELSE 1

\* the last block of Update of the file-picker shell, showing n lines
FredBottom(vp, key, n) ==
    LET filled == SetContent(vp, n)
        scrolled == IF key = "enter" THEN GotoBottom(filled) ELSE filled
    IN  IF key \in FredInputOnlyKeys THEN scrolled ELSE ViewportUpdate(scrolled, key)

\* the last block of Update of the Portfolio shell, showing n lines
PortfolioBottom(vp, key, n) ==
    LET filled == SetContent(vp, n)
    IN  IF key \in PortfolioInputOnlyKeys THEN filled ELSE ViewportUpdate(filled, key)

Bottom(vp, key, n) ==
    IF variant = "fred" THEN FredBottom(vp, key, n) ELSE PortfolioBottom(vp, key, n)

\* case tea.WindowSizeMsg of either shell
Resized(vp, h) ==
    IF variant = "fred"
    THEN IF ~ready THEN NewViewport(h - FredPromptHeight, EmptyContent)
         ELSE [vp EXCEPT !.Height = h - FredPromptHeight]
    ELSE [vp EXCEPT !.Height = h - PortfolioMargin]

\* the end of case "enter" of the Portfolio shell, which a break skips
PortfolioScrolled(vp, o, n) ==
    LET emptied == IF o.clear THEN SetContent(vp, 1) ELSE vp
    IN  IF o.append /\ ready
        THEN SetYOffset(ViewportUpdate(SetContent(emptied, n), "enter"), FarOffset)
        ELSE emptied

\* the scrollback viewport after case "enter" with outcome o and transcript h
Entered(vp, o, h) ==
    IF variant = "fred" THEN FredBottom(vp, "enter", FredTranscriptLines(h))
    ELSE PortfolioBottom(PortfolioScrolled(vp, o, PortfolioTranscriptLines(h)), "enter",
                         ContentLines(h, ready))

(***************************************************************************)
(* The lines a user types in the navigation model.                         *)
(***************************************************************************)
LineCdUp     == CdPrefix \o DotDot
LineCdA      == CdPrefix \o NameA
LineCdEscape == CdPrefix \o <<"a", "/", ".", ".", "/", ".", ".">>
LineCdH      == CdPrefix \o NameH
LineCdAH     == CdPrefix \o NameA \o <<"/">> \o NameH
LineCatF     == CatPrefix \o NameF
LineCatS     == CatPrefix \o NameS
LineCatAS    == CatPrefix \o NameA \o <<"/">> \o NameS
LineCatX     == CatPrefix \o <<"x">>

Lines == { LineCdUp, LineCdA, LineCdEscape, LineCdH, LineCdAH,
           LineCatF, LineCatS, LineCatAS, LineCatX }

\* the lines of the navigation model: directories entered and left, files
\* opened in the pager and a read that fails
NavLines == { LineCdUp, LineCdA, LineCdH, LineCdAH, LineCatF, LineCatX }

\* the lines of the history-walk model
WalkLines == { LineCatF, LineCatX, CmdPwd, <<>> }

\* the lines of the command model
LineCdF     == CdPrefix \o NameF
LineUnknown == <<"c">>

ShellLines == { <<>>, CmdClear, CmdPwd, LineCatF, LineCdA, LineCdF, LineUnknown }

\* the lines of the error model
LineWikiX == WikiPrefix \o <<"x">>

SessionLines == { LineCdF, LineCdH, LineCatX, CmdJoke, LineWikiX, LineUnknown, CmdExit }

\* the lines of the scrollback model
ScrollLines == { CmdHelp, LineCatX }

\* the lines of the completion model
LineCdP        == CdPrefix \o NameP
LineCdQ        == CdPrefix \o NameQ
LineCo         == <<"c", "o">>
LineCa         == <<"C", "a">>
LineNoMatch    == <<"z">>
LineCatCo      == CatPrefix \o LineCo
LineCatSpaceC  == <<"c", "a", "t", " ", " ", "c">>
LineCatDot     == CatPrefix \o <<".">>

TabLines == { LineCdP, LineCdQ, LineUnknown, LineCo, LineCa, LineNoMatch,
              LineCatCo, LineCatSpaceC, LineCatDot }

\* the first word of the entry x y of the directory q
LineX == <<"x">>

RetabLines == TabLines \cup { LineX }

\* the heights a terminal window is resized to
WinHeights == { 24, 30 }

\* the height of the terminal window while the shell shows the transcript
ShellHeights == { 24 }

\* the keys pressed while the pager is open, other than the dismiss keys
DismissKeys == { "q", "esc" }

ScrollKeys == { "down", "up", "pgdown", "enter", "ctrl+c" }

(***************************************************************************)
(* initialModel of the chat CLI (src/ChatgptCLI) and of the HTTP status    *)
(* checker (src/http-codes/main.go).                                       *)
(***************************************************************************)
\* the connections of the chat server; the chat CLI is one program
ChatSessions == IF variant = "chatserver" THEN { 1, 2 } ELSE { 1 }

\* initialModel(apiKey) for every session, and the package-level variables;
\* main.go has no password screen: its model counts as authenticated
ChatInitial ==
    /\ textInput = [s \in ChatSessions |-> <<>>]
    /\ passwordInput = [s \in ChatSessions |-> <<>>]
    /\ submitted = [s \in ChatSessions |-> FALSE]
    /\ isStreaming = [s \in ChatSessions |-> FALSE]
    /\ showResponse = [s \in ChatSessions |-> FALSE]
    /\ response = [s \in ChatSessions |-> <<>>]
    /\ chatHistory = [s \in ChatSessions |-> <<>>]
    /\ authenticated = [s \in ChatSessions |-> variant # "chatserver"]
    /\ authFailed = [s \in ChatSessions |-> FALSE]
    /\ closed = {}
    /\ globalResponse = <<>>
    /\ isStreamComplete = FALSE
    /\ cmds = {}
    /\ streams = {}
    /\ updates = [s \in ChatSessions |-> 0]

\* initialModel of the HTTP status checker
HttpInitial ==
    /\ state = "StateGetURL"
    /\ status = 0
    /\ err = FALSE
    /\ checks = <<>>

(***************************************************************************)
(* initialModel of either program.                                         *)
(***************************************************************************)
StartingPath == <<".">>

Init ==
    /\ variant \in {"fred", "portfolio"}
    /\ input = <<>>
    /\ directory = StartingPath
    /\ text = NothingYet
    /\ history = <<>>
    /\ historyIndex = -1
    /\ clihistory = IF variant = "fred" THEN <<HeaderBlock, WelcomeFred>>
                    ELSE <<WelcomePortfolio>>
    /\ fileViewMode = FALSE
    /\ fileViewport = ZeroViewport
    /\ fileContent = EmptyContent
    /\ ready = FALSE
    /\ quit = FALSE
    /\ viewport = IF variant = "fred" THEN ZeroViewport
                  ELSE NewViewport(PortfolioViewportHeight, EmptyContent)
    /\ showViewport = FALSE
    /\ searching = FALSE
    /\ query = <<>>
    /\ content = EmptyContent
    /\ pending = <<>>
    /\ peer = <<>>
    /\ session = 1
    /\ ChatInitial
    /\ HttpInitial

(***************************************************************************)
(* File view mode: the first block of Update in both programs.             *)
(***************************************************************************)
\* FileViewDismiss that keeps the pager viewport
FileViewDismissKeepsViewport(key) ==
    /\ ~quit /\ fileViewMode
    /\ key \in DismissKeys
    /\ fileViewMode' = FALSE
    /\ fileContent' = EmptyContent
    /\ UNCHANGED otherVars
    /\ UNCHANGED <<viewport, variant, input, directory, text, history, historyIndex, clihistory,
                   fileViewport, ready, quit>>

FileViewDismiss(key) ==
    /\ ~quit /\ fileViewMode
    /\ key \in DismissKeys
    /\ fileViewMode' = FALSE
    /\ fileContent' = EmptyContent
    /\ fileViewport' = ZeroViewport
    /\ UNCHANGED otherVars
    /\ UNCHANGED <<viewport, variant, input, directory, text, history, historyIndex, clihistory,
                   ready, quit>>

FileViewResize(h) ==
    /\ ~quit /\ fileViewMode
    /\ fileViewport' = [fileViewport EXCEPT !.Height =
                            h - (IF variant = "fred" THEN FredPagerMargin
                                 ELSE PortfolioPagerMargin)]
    /\ UNCHANGED otherVars
    /\ UNCHANGED <<viewport, variant, input, directory, text, history, historyIndex, clihistory,
                   fileViewMode, fileContent, ready, quit>>

\* FileViewKey that also hands the key to the text input
FileViewKeyReachesInput(key) ==
    /\ ~quit /\ fileViewMode
    /\ key \notin DismissKeys
    /\ fileViewport' = ViewportUpdate(fileViewport, key)
    /\ input' = Append(input, key)
    /\ UNCHANGED otherVars
    /\ UNCHANGED <<viewport, variant, directory, text, history, historyIndex, clihistory,
                   fileViewMode, fileContent, ready, quit>>

FileViewKey(key) ==
    /\ ~quit /\ fileViewMode
    /\ key \notin DismissKeys
    /\ fileViewport' = ViewportUpdate(fileViewport, key)
    /\ UNCHANGED otherVars
    /\ UNCHANGED <<viewport, variant, input, directory, text, history, historyIndex, clihistory,
                   fileViewMode, fileContent, ready, quit>>

(***************************************************************************)
(* Normal mode.                                                            *)
(***************************************************************************)
\* the key message that holds the runes of a line: the terminal hands over the
\* runes it read together (a pasted or quickly typed line) as one message,
\* whose name is no key of any key map unless it is a single rune
RunesKey(line) == IF Len(line) = 1 THEN line[1] ELSE "runes"

\* the text input replaces its value by the line, while the last block of
\* Update shows the n lines of the transcript
TypeLine(line, n) ==
    /\ ~quit /\ ~fileViewMode
    /\ input' = line
    /\ UNCHANGED otherVars
    /\ viewport' = Bottom(viewport, RunesKey(line), n)
    /\ UNCHANGED <<variant, directory, text, history, historyIndex, clihistory,
                   fileViewMode, fileViewport, fileContent, ready, quit>>

CtrlC ==
    /\ ~quit /\ ~fileViewMode
    /\ quit' = TRUE
    /\ UNCHANGED otherVars
    /\ UNCHANGED <<viewport, variant, input, directory, text, history, historyIndex, clihistory,
                   fileViewMode, fileViewport, fileContent, ready>>

WindowSize(h) ==
    /\ ~quit /\ ~fileViewMode
    /\ ready' = TRUE
    /\ UNCHANGED otherVars
    /\ viewport' = Bottom(Resized(viewport, h), NoKey, ContentLines(clihistory, TRUE))
    /\ UNCHANGED <<variant, input, directory, text, history, historyIndex, clihistory,
                   fileViewMode, fileViewport, fileContent, quit>>

\* the Page Up and Page Down keys, which reach Update as "pgup" and "pgdown"
PageKeys == { "pgup", "pgdown" }

\* a key that no case of the key switch names (the cases "pageup" and
\* "pagedown" of the file-picker shell match no key) reaches the last block
PageKey(key) ==
    /\ ~quit /\ ~fileViewMode
    /\ key \in PageKeys
    /\ viewport' = Bottom(viewport, key, ContentLines(clihistory, ready))
    /\ UNCHANGED otherVars
    /\ UNCHANGED <<variant, input, directory, text, history, historyIndex, clihistory,
                   fileViewMode, fileViewport, fileContent, ready, quit>>

\* Plain that starts every command from the starting directory
PlainResetsDirectory(line) ==
    [directory |-> StartingPath, text |-> line, append |-> TRUE, clear |-> FALSE,
     view |-> FALSE, content |-> EmptyContent, quit |-> FALSE]

\* what the enter branch leaves behind when nothing special happens:
\* m.text is the line, one block is appended, the input is reset
Plain(line) ==
    [directory |-> directory, text |-> line, append |-> TRUE, clear |-> FALSE,
     view |-> FALSE, content |-> EmptyContent, quit |-> FALSE]

\* FredCd without the root guard of cd ..
FredCdPopsRoot(line) ==
    LET dirToAdd == Drop(line, 3)
        parts == Split(directory, "/")
    IN  IF dirToAdd = DotDot
        THEN [Plain(line) EXCEPT !.directory = Join(Front(parts), "/")]
        ELSE IF HasPrefix(dirToAdd, <<".">>)
             THEN [Plain(line) EXCEPT !.text = HiddenDirMsg]
        ELSE IF validatePath(directory \o <<"/">> \o dirToAdd)
             THEN [Plain(line) EXCEPT !.directory = directory \o <<"/">> \o dirToAdd]
        ELSE [Plain(line) EXCEPT !.text = InvalidDirMsg \o dirToAdd]

\* FredCd without the hidden-directory test
FredCdNoHiddenTest(line) ==
    LET dirToAdd == Drop(line, 3)
        parts == Split(directory, "/")
    IN  IF dirToAdd = DotDot
        THEN [Plain(line) EXCEPT !.directory =
                  IF Len(parts) > 1 THEN Join(Front(parts), "/") ELSE StartingPath]
        ELSE IF validatePath(directory \o <<"/">> \o dirToAdd)
             THEN [Plain(line) EXCEPT !.directory = directory \o <<"/">> \o dirToAdd]
        ELSE [Plain(line) EXCEPT !.text = InvalidDirMsg \o dirToAdd]

\* the cd branch of the file-picker shell
FredCd(line) ==
    LET dirToAdd == Drop(line, 3)
        parts == Split(directory, "/")
    IN  IF dirToAdd = DotDot
        THEN [Plain(line) EXCEPT !.directory =
                  IF Len(parts) > 1 THEN Join(Front(parts), "/") ELSE StartingPath]
        ELSE IF HasPrefix(dirToAdd, <<".">>)
             THEN [Plain(line) EXCEPT !.text = HiddenDirMsg]
        ELSE IF validatePath(directory \o <<"/">> \o dirToAdd)
             THEN [Plain(line) EXCEPT !.directory = directory \o <<"/">> \o dirToAdd]
        ELSE [Plain(line) EXCEPT !.text = InvalidDirMsg \o dirToAdd]

\* FredCat without the test of the read error
FredCatIgnoresError(line) ==
    LET filename == Drop(line, 4)
        r == ReadFile(directory \o <<"/">> \o filename)
    IN  IF HasPrefix(filename, <<".">>)
        THEN [Plain(line) EXCEPT !.text = HiddenFileMsg, !.append = FALSE]
        ELSE [Plain(line) EXCEPT !.view = TRUE, !.content = r.content]

\* FredCat in which a read error ends the session
FredCatFatalError(line) ==
    LET filename == Drop(line, 4)
        r == ReadFile(directory \o <<"/">> \o filename)
    IN  IF HasPrefix(filename, <<".">>)
        THEN [Plain(line) EXCEPT !.text = HiddenFileMsg, !.append = FALSE]
        ELSE IF ~r.ok
             THEN [Plain(line) EXCEPT !.text = ReadErrMsg \o r.err, !.append = FALSE,
                                      !.quit = TRUE]
        ELSE [Plain(line) EXCEPT !.view = TRUE, !.content = r.content]

\* the cat branch of the file-picker shell; break leaves the enter case
\* before the block is appended
FredCat(line) ==
    LET filename == Drop(line, 4)
        r == ReadFile(directory \o <<"/">> \o filename)
    IN  IF HasPrefix(filename, <<".">>)
        THEN [Plain(line) EXCEPT !.text = HiddenFileMsg, !.append = FALSE]
        ELSE IF ~r.ok
             THEN [Plain(line) EXCEPT !.text = ReadErrMsg \o r.err, !.append = FALSE]
        ELSE [Plain(line) EXCEPT !.view = TRUE, !.content = r.content]

\* the outcomes of the enter branch of the file-picker shell
FredExec(line) ==
    IF HasPrefix(line, CdPrefix) THEN { FredCd(line) }
    ELSE IF line = CmdLs
         THEN { [Plain(line) EXCEPT !.text = LsError(directory) \o <<"\nName\n------\n">>
                                             \o FredListing(ReadDir(directory))] }
    ELSE IF line = CmdHelp THEN { [Plain(line) EXCEPT !.text = <<"Available Commands:...">>] }
    ELSE IF line = CmdClear THEN { [Plain(line) EXCEPT !.clear = TRUE, !.append = FALSE] }
    ELSE IF HasPrefix(line, CatPrefix) THEN { FredCat(line) }
    ELSE IF line = CmdJoke THEN { [Plain(line) EXCEPT !.text = t] : t \in JokeTexts }
    ELSE IF HasPrefix(line, WikiPrefix)
         THEN IF Drop(line, 5) = <<>>
              THEN { [Plain(line) EXCEPT !.text = <<"Please provide a search term.">>] }
              ELSE { [Plain(line) EXCEPT !.text = t] : t \in WikiTexts }
    ELSE IF line = CmdPwd
         THEN { [Plain(line) EXCEPT !.text = <<"Current directory: ">> \o directory] }
    ELSE IF line = CmdExit THEN { [Plain(line) EXCEPT !.quit = TRUE, !.append = FALSE] }
    ELSE IF line = CmdWhoami THEN { [Plain(line) EXCEPT !.text = <<"Current user: guest">>] }
    ELSE IF line = CmdDate THEN { [Plain(line) EXCEPT !.text = <<"Current date: ", "today">>] }
    ELSE IF HasPrefix(line, EchoPrefix)
         THEN { [Plain(line) EXCEPT !.text = <<"Echoing: ">> \o Drop(line, 5)] }
    ELSE IF line = CmdNeofetch THEN { [Plain(line) EXCEPT !.text = <<"neofetch art">>] }
    ELSE IF line = CmdVersion
         THEN { [Plain(line) EXCEPT !.text = line \o <<" verson 1.0.0, built with Go ...">>] }
    ELSE IF line = CmdSkills THEN { [Plain(line) EXCEPT !.text = <<"\nSkills:...">>] }
    ELSE IF line = CmdContact THEN { [Plain(line) EXCEPT !.text = <<"You can find me on:...">>] }
    ELSE IF HasPrefix(line, QrPrefix)
         THEN { [Plain(line) EXCEPT !.text = <<"QR code for: ">> \o Drop(line, 3)
                                             \o <<"\n\n", "qr(">> \o Drop(line, 3) \o <<")">>] }
    ELSE IF line = CmdCoinflip
         THEN { [Plain(line) EXCEPT !.text = line \o r] :
                    r \in { <<" Result: Heads">>, <<" Result: Tails">> } }
    ELSE IF HasPrefix(line, YodaPrefix)
         THEN { [Plain(line) EXCEPT !.text = t] : t \in YodaTexts(Drop(line, 5)) }
    ELSE { [Plain(line) EXCEPT !.text = line \o UnknownMsg] }

\* Submit that does not record a line equal to the previous one
SubmitSkipsRepeats(o, pagerHeight) ==
    /\ text' = o.text
    /\ history' = IF history # <<>> /\ Last(history) = input THEN history
                  ELSE Append(history, input)
    /\ historyIndex' = -1
    /\ directory' = o.directory
    /\ quit' = o.quit
    /\ input' = IF o.quit THEN input ELSE <<>>
    /\ clihistory' = IF o.clear
                     THEN (IF variant = "fred" THEN <<HeaderBlock>> ELSE <<>>)
                     ELSE IF o.append THEN Append(clihistory, o.text)
                     ELSE clihistory
    /\ fileViewMode' = o.view
    /\ fileContent' = IF o.view THEN o.content ELSE fileContent
    /\ fileViewport' = IF o.view THEN NewViewport(pagerHeight, o.content) ELSE fileViewport
    /\ UNCHANGED otherVars
    /\ viewport' = IF o.quit THEN viewport ELSE Entered(viewport, o, clihistory')
    /\ UNCHANGED <<variant, ready>>

\* Submit in which clear also empties the command history
SubmitClearForgetsHistory(o, pagerHeight) ==
    /\ text' = o.text
    /\ history' = IF o.clear THEN <<>> ELSE Append(history, input)
    /\ historyIndex' = -1
    /\ directory' = o.directory
    /\ quit' = o.quit
    /\ input' = IF o.quit THEN input ELSE <<>>
    /\ clihistory' = IF o.clear
                     THEN (IF variant = "fred" THEN <<HeaderBlock>> ELSE <<>>)
                     ELSE IF o.append THEN Append(clihistory, o.text)
                     ELSE clihistory
    /\ fileViewMode' = o.view
    /\ fileContent' = IF o.view THEN o.content ELSE fileContent
    /\ fileViewport' = IF o.view THEN NewViewport(pagerHeight, o.content) ELSE fileViewport
    /\ UNCHANGED otherVars
    /\ viewport' = IF o.quit THEN viewport ELSE Entered(viewport, o, clihistory')
    /\ UNCHANGED <<variant, ready>>

\* Submit without the test that keeps clear out of the transcript
SubmitAppendsClear(o, pagerHeight) ==
    /\ text' = o.text
    /\ history' = Append(history, input)
    /\ historyIndex' = -1
    /\ directory' = o.directory
    /\ quit' = o.quit
    /\ input' = IF o.quit THEN input ELSE <<>>
    /\ clihistory' = IF o.clear
                     THEN (IF variant = "fred" THEN <<HeaderBlock, o.text>> ELSE <<o.text>>)
                     ELSE IF o.append THEN Append(clihistory, o.text)
                     ELSE clihistory
    /\ fileViewMode' = o.view
    /\ fileContent' = IF o.view THEN o.content ELSE fileContent
    /\ fileViewport' = IF o.view THEN NewViewport(pagerHeight, o.content) ELSE fileViewport
    /\ UNCHANGED otherVars
    /\ viewport' = IF o.quit THEN viewport ELSE Entered(viewport, o, clihistory')
    /\ UNCHANGED <<variant, ready>>

\* the state after the enter branch with outcome o
Submit(o, pagerHeight) ==
    /\ text' = o.text
    /\ history' = Append(history, input)
    /\ historyIndex' = -1
    /\ directory' = o.directory
    /\ quit' = o.quit
    /\ input' = IF o.quit THEN input ELSE <<>>
    /\ clihistory' = IF o.clear
                     THEN (IF variant = "fred" THEN <<HeaderBlock>> ELSE <<>>)
                     ELSE IF o.append THEN Append(clihistory, o.text)
                     ELSE clihistory
    /\ fileViewMode' = o.view
    /\ fileContent' = IF o.view THEN o.content ELSE fileContent
    /\ fileViewport' = IF o.view THEN NewViewport(pagerHeight, o.content) ELSE fileViewport
    /\ UNCHANGED otherVars
    /\ viewport' = IF o.quit THEN viewport ELSE Entered(viewport, o, clihistory')
    /\ UNCHANGED <<variant, ready>>

\* case "enter" of the file-picker shell
Enter(bound) ==
    /\ ~quit /\ ~fileViewMode
    /\ variant = "fred"
    /\ Len(history) < bound
    /\ \E o \in FredExec(input) : Submit(o, FredPagerHeight)

\* the cd branch of the Portfolio shell: no hidden-directory test
PortfolioCd(line) ==
    LET dirToAdd == Drop(line, 3)
        parts == Split(directory, "/")
    IN  IF dirToAdd = DotDot
        THEN [Plain(line) EXCEPT !.directory =
                  IF Len(parts) > 1 THEN Join(Front(parts), "/") ELSE StartingPath]
        ELSE IF validatePath(directory \o <<"/">> \o dirToAdd)
             THEN [Plain(line) EXCEPT !.directory = directory \o <<"/">> \o dirToAdd]
        ELSE [Plain(line) EXCEPT !.text = InvalidDirMsg \o dirToAdd]

\* the cat branch of the Portfolio shell: no hidden-file test
PortfolioCat(line) ==
    LET r == ReadFile(directory \o <<"/">> \o Drop(line, 4))
    IN  IF ~r.ok
        THEN [Plain(line) EXCEPT !.text = ReadErrMsg \o r.err, !.append = FALSE]
        ELSE [Plain(line) EXCEPT !.view = TRUE, !.content = r.content]

\* PortfolioExec whose fallback does not echo the line
PortfolioExecNoEcho(line) ==
    IF HasPrefix(line, CdPrefix) THEN { PortfolioCd(line) }
    ELSE IF line = CmdLs
         THEN { [Plain(line) EXCEPT !.text = LsError(directory) \o <<"\nName\n------\n">>
                                             \o PortfolioListing(ReadDir(directory))] }
    ELSE IF line = CmdHelp THEN { [Plain(line) EXCEPT !.text = <<"Available Commands:...">>] }
    ELSE IF line = CmdClear THEN { [Plain(line) EXCEPT !.clear = TRUE, !.append = FALSE] }
    ELSE IF HasPrefix(line, CatPrefix) THEN { PortfolioCat(line) }
    ELSE IF line = CmdJoke THEN { [Plain(line) EXCEPT !.text = t] : t \in JokeTexts }
    ELSE IF HasPrefix(line, WikiPrefix)
         THEN IF Drop(line, 4) = <<>>
              THEN { [Plain(line) EXCEPT !.text = <<"Please provide a search term.">>] }
              ELSE { [Plain(line) EXCEPT !.text = t] : t \in WikiTexts }
    ELSE IF line = CmdPwd
         THEN { [Plain(line) EXCEPT !.text = <<"Current directory: ">> \o directory] }
    ELSE IF line = CmdExit THEN { [Plain(line) EXCEPT !.quit = TRUE, !.append = FALSE] }
    ELSE IF line = CmdWhoami THEN { [Plain(line) EXCEPT !.text = <<"Current user: guest">>] }
    ELSE IF line = CmdDate THEN { [Plain(line) EXCEPT !.text = <<"Current date: ", "today">>] }
    ELSE IF HasPrefix(line, EchoPrefix)
         THEN { [Plain(line) EXCEPT !.text = <<"Echoing: ">> \o Drop(line, 5)] }
    ELSE IF line = CmdNeofetch THEN { [Plain(line) EXCEPT !.text = <<"neofetch art">>] }
    ELSE IF line = CmdVersion
         THEN { [Plain(line) EXCEPT !.text = line \o <<" verson 1.0.0, built with Go ...">>] }
    ELSE IF line = CmdSkills THEN { [Plain(line) EXCEPT !.text = <<"\nSkills:...">>] }
    ELSE IF line = CmdContact THEN { [Plain(line) EXCEPT !.text = <<"You can find me on:...">>] }
    ELSE { [Plain(line) EXCEPT !.text = UnknownMsg] }

\* the outcomes of the enter branch of the Portfolio shell
PortfolioExec(line) ==
    IF HasPrefix(line, CdPrefix) THEN { PortfolioCd(line) }
    ELSE IF line = CmdLs
         THEN { [Plain(line) EXCEPT !.text = LsError(directory) \o <<"\nName\n------\n">>
                                             \o PortfolioListing(ReadDir(directory))] }
    ELSE IF line = CmdHelp THEN { [Plain(line) EXCEPT !.text = <<"Available Commands:...">>] }
    ELSE IF line = CmdClear THEN { [Plain(line) EXCEPT !.clear = TRUE, !.append = FALSE] }
    ELSE IF HasPrefix(line, CatPrefix) THEN { PortfolioCat(line) }
    ELSE IF line = CmdJoke THEN { [Plain(line) EXCEPT !.text = t] : t \in JokeTexts }
    ELSE IF HasPrefix(line, WikiPrefix)
         THEN IF Drop(line, 4) = <<>>
              THEN { [Plain(line) EXCEPT !.text = <<"Please provide a search term.">>] }
              ELSE { [Plain(line) EXCEPT !.text = t] : t \in WikiTexts }
    ELSE IF line = CmdPwd
         THEN { [Plain(line) EXCEPT !.text = <<"Current directory: ">> \o directory] }
    ELSE IF line = CmdExit THEN { [Plain(line) EXCEPT !.quit = TRUE, !.append = FALSE] }
    ELSE IF line = CmdWhoami THEN { [Plain(line) EXCEPT !.text = <<"Current user: guest">>] }
    ELSE IF line = CmdDate THEN { [Plain(line) EXCEPT !.text = <<"Current date: ", "today">>] }
    ELSE IF HasPrefix(line, EchoPrefix)
         THEN { [Plain(line) EXCEPT !.text = <<"Echoing: ">> \o Drop(line, 5)] }
    ELSE IF line = CmdNeofetch THEN { [Plain(line) EXCEPT !.text = <<"neofetch art">>] }
    ELSE IF line = CmdVersion
         THEN { [Plain(line) EXCEPT !.text = line \o <<" verson 1.0.0, built with Go ...">>] }
    ELSE IF line = CmdSkills THEN { [Plain(line) EXCEPT !.text = <<"\nSkills:...">>] }
    ELSE IF line = CmdContact THEN { [Plain(line) EXCEPT !.text = <<"You can find me on:...">>] }
    ELSE { [Plain(line) EXCEPT !.text = line \o UnknownMsg] }

\* case "enter" of the Portfolio shell
PortfolioEnter(bound) ==
    /\ ~quit /\ ~fileViewMode
    /\ variant = "portfolio"
    /\ Len(history) < bound
    /\ \E o \in PortfolioExec(input) : Submit(o, PortfolioPagerHeight)

\* history[len(history)-1-i] of the Go slice
Recalled(i) == history[Len(history) - i]

\* Up without the saturation at the oldest entry
UpNoSaturation ==
    /\ ~quit /\ ~fileViewMode
    /\ variant = "fred"
    /\ IF Len(history) > 0
       THEN /\ historyIndex' = historyIndex + 1
            /\ input' = IF historyIndex' < Len(history) THEN Recalled(historyIndex') ELSE input
       ELSE UNCHANGED <<historyIndex, input>>
    /\ UNCHANGED otherVars
    /\ UNCHANGED <<viewport, variant, directory, text, history, clihistory,
                   fileViewMode, fileViewport, fileContent, ready, quit>>

\* Up that wraps around to the most recent entry after the oldest one
UpWrapsAround ==
    /\ ~quit /\ ~fileViewMode
    /\ variant = "fred"
    /\ IF Len(history) > 0
       THEN /\ historyIndex' = IF historyIndex = -1 THEN 0
                               ELSE IF historyIndex < Len(history) - 1 THEN historyIndex + 1
                               ELSE 0
            /\ input' = Recalled(historyIndex')
       ELSE UNCHANGED <<historyIndex, input>>
    /\ UNCHANGED otherVars
    /\ UNCHANGED <<viewport, variant, directory, text, history, clihistory,
                   fileViewMode, fileViewport, fileContent, ready, quit>>

\* case "up", "ctrl+p" of the file-picker shell
Up ==
    /\ ~quit /\ ~fileViewMode
    /\ variant = "fred"
    /\ IF Len(history) > 0
       THEN /\ historyIndex' = IF historyIndex = -1 THEN 0
                               ELSE IF historyIndex < Len(history) - 1 THEN historyIndex + 1
                               ELSE historyIndex
            /\ input' = Recalled(historyIndex')
       ELSE UNCHANGED <<historyIndex, input>>
    /\ UNCHANGED otherVars
    /\ UNCHANGED <<viewport, variant, directory, text, history, clihistory,
                   fileViewMode, fileViewport, fileContent, ready, quit>>

\* Down that moves the cursor without recalling the line
DownKeepsInput ==
    /\ ~quit /\ ~fileViewMode
    /\ variant = "fred"
    /\ IF Len(history) > 0
       THEN /\ historyIndex' = IF historyIndex > 0 THEN historyIndex - 1
                               ELSE IF historyIndex = 0 THEN -1
                               ELSE historyIndex
            /\ input' = IF historyIndex = 0 THEN <<>> ELSE input
       ELSE UNCHANGED <<historyIndex, input>>
    /\ UNCHANGED otherVars
    /\ UNCHANGED <<viewport, variant, directory, text, history, clihistory,
                   fileViewMode, fileViewport, fileContent, ready, quit>>

\* Down that leaves the history from any entry, not only the most recent
DownLeavesHistory ==
    /\ ~quit /\ ~fileViewMode
    /\ variant = "fred"
    /\ IF Len(history) > 0
       THEN /\ historyIndex' = -1
            /\ input' = IF historyIndex >= 0 THEN <<>> ELSE input
       ELSE UNCHANGED <<historyIndex, input>>
    /\ UNCHANGED otherVars
    /\ UNCHANGED <<viewport, variant, directory, text, history, clihistory,
                   fileViewMode, fileViewport, fileContent, ready, quit>>

\* case "down", "ctrl+n" of the file-picker shell
Down ==
    /\ ~quit /\ ~fileViewMode
    /\ variant = "fred"
    /\ IF Len(history) > 0
       THEN /\ historyIndex' = IF historyIndex > 0 THEN historyIndex - 1
                               ELSE IF historyIndex = 0 THEN -1
                               ELSE historyIndex
            /\ input' = IF historyIndex' >= 0 THEN Recalled(historyIndex')
                        ELSE IF historyIndex = 0 THEN <<>>
                        ELSE input
       ELSE UNCHANGED <<historyIndex, input>>
    /\ UNCHANGED otherVars
    /\ UNCHANGED <<viewport, variant, directory, text, history, clihistory,
                   fileViewMode, fileViewport, fileContent, ready, quit>>

\* case "up", "ctrl+p" of the Portfolio shell
PortfolioUp ==
    /\ ~quit /\ ~fileViewMode
    /\ variant = "portfolio"
    /\ IF Len(history) > 0
       THEN /\ historyIndex' = IF historyIndex = -1 THEN 0
                               ELSE IF historyIndex < Len(history) - 1 THEN historyIndex + 1
                               ELSE historyIndex
            /\ input' = Recalled(historyIndex')
       ELSE UNCHANGED <<historyIndex, input>>
    /\ UNCHANGED otherVars
    /\ viewport' = Bottom(viewport, "up", ContentLines(clihistory, ready))
    /\ UNCHANGED <<variant, directory, text, history, clihistory,
                   fileViewMode, fileViewport, fileContent, ready, quit>>

\* case "down", "ctrl+n" of the Portfolio shell
PortfolioDown ==
    /\ ~quit /\ ~fileViewMode
    /\ variant = "portfolio"
    /\ IF Len(history) > 0 /\ historyIndex > 0
       THEN /\ historyIndex' = historyIndex - 1
            /\ input' = Recalled(historyIndex')
       ELSE IF Len(history) > 0 /\ historyIndex = 0
            THEN /\ historyIndex' = -1
                 /\ input' = <<>>
       ELSE UNCHANGED <<historyIndex, input>>
    /\ UNCHANGED otherVars
    /\ viewport' = Bottom(viewport, "down", ContentLines(clihistory, ready))
    /\ UNCHANGED <<variant, directory, text, history, clihistory,
                   fileViewMode, fileViewport, fileContent, ready, quit>>

(***************************************************************************)
(* Tab completion of the file-picker shell.                                *)
(***************************************************************************)
\* initialModel: the command names offered for completion, in their order
commandautocomplete ==
    << CmdHelp, CmdLs, CmdPwd, <<"c", "d">>, <<"c", "a", "t">>, CmdWhoami, CmdDate,
       CmdVersion, CmdNeofetch, CmdSkills, CmdContact, <<"q", "r">>, CmdCoinflip,
       <<"e", "c", "h", "o">>, CmdJoke, <<"w", "i", "k", "i">>, CmdClear, CmdExit,
       <<"y", "o", "d", "a">> >>

\* the names of the entries of a directory that do not start with a dot
RECURSIVE VisibleNames(_)
VisibleNames(entries) ==
    IF entries = <<>> THEN <<>>
    ELSE IF HasPrefix(Head(entries).name, <<".">>) THEN VisibleNames(Tail(entries))
    ELSE <<Head(entries).name>> \o VisibleNames(Tail(entries))

\* fileautocomplete that keeps the entries starting with a dot
fileautocompleteWithHidden(dir) ==
    [i \in 1..Len(ReadDir(dir)) |-> ReadDir(dir)[i].name]

fileautocomplete(dir) == VisibleNames(ReadDir(dir))

\* option is one of the names of fileautocomplete
IsFileOption(files, option) == \E i \in 1..Len(files) : files[i] = option

\* PickMatch that does not let a directory entry replace a command name
PickMatchNoEntryPreference(files, currentWord, bestMatch, option) ==
    IF ~HasPrefix(ToLower(option), ToLower(currentWord)) THEN bestMatch
    ELSE IF bestMatch = <<>> THEN option
    ELSE LET isCurrentFile == IsFileOption(files, option)
             isBestFile == IsFileOption(files, bestMatch)
         IN  IF isCurrentFile /\ isBestFile /\ Len(option) < Len(bestMatch) THEN option
             ELSE IF ~isCurrentFile /\ ~isBestFile /\ Len(option) < Len(bestMatch)
                  THEN option
             ELSE bestMatch

\* one turn of the loop over autocompletelist
PickMatch(files, currentWord, bestMatch, option) ==
    IF ~HasPrefix(ToLower(option), ToLower(currentWord)) THEN bestMatch
    ELSE IF bestMatch = <<>> THEN option
    ELSE LET isCurrentFile == IsFileOption(files, option)
             isBestFile == IsFileOption(files, bestMatch)
         IN  IF isCurrentFile /\ ~isBestFile THEN option
             ELSE IF isCurrentFile /\ isBestFile /\ Len(option) < Len(bestMatch) THEN option
             ELSE IF ~isCurrentFile /\ ~isBestFile /\ Len(option) < Len(bestMatch)
                  THEN option
             ELSE bestMatch

\* the loop over autocompletelist, from bestMatch
RECURSIVE BestMatch(_, _, _, _)
BestMatch(options, files, currentWord, bestMatch) ==
    IF options = <<>> THEN bestMatch
    ELSE BestMatch(Tail(options), files, currentWord,
                   PickMatch(files, currentWord, bestMatch, Head(options)))

\* Completed that empties the input line when nothing matches
CompletedClearsOnMiss(value, dir) ==
    LET files == fileautocomplete(dir)
        autocompletelist == commandautocomplete \o files
        words == Fields(value)
    IN  IF value = <<>> \/ Len(words) = 0 THEN value
        ELSE LET bestMatch == BestMatch(autocompletelist, files, Last(words), <<>>)
             IN  IF bestMatch = <<>> THEN <<>>
                 ELSE IF Len(words) = 1 THEN bestMatch
                 ELSE Join(Front(words) \o <<bestMatch>>, " ")

\* the value of the input line after the tab key
Completed(value, dir) ==
    LET files == fileautocomplete(dir)
        autocompletelist == commandautocomplete \o files
        words == Fields(value)
    IN  IF value = <<>> \/ Len(words) = 0 THEN value
        ELSE LET bestMatch == BestMatch(autocompletelist, files, Last(words), <<>>)
             IN  IF bestMatch = <<>> THEN value
                 ELSE IF Len(words) = 1 THEN bestMatch
                 ELSE Join(Front(words) \o <<bestMatch>>, " ")

\* case "tab"
Tab ==
    /\ ~quit /\ ~fileViewMode
    /\ variant = "fred"
    /\ input' = Completed(input, directory)
    /\ UNCHANGED otherVars
    /\ UNCHANGED <<viewport, variant, directory, text, history, historyIndex, clihistory,
                   fileViewMode, fileViewport, fileContent, ready, quit>>

(***************************************************************************)
(* The Wikipedia CLI (variant = "wikipedia", src/WikipediaCLI/main.go):    *)
(* input is the value of m.textinput, pending the search commands whose    *)
(* result message has not arrived yet.                                     *)
(***************************************************************************)
\* the state of the shells, which no event of the Wikipedia CLI touches
shellVars == <<directory, text, history, historyIndex, clihistory,
               fileViewMode, fileViewport, fileContent, peer, session,
               chatVars, httpVars>>

\* viewport.New(80, 24) of the result message
WikiViewportHeight == 24
\* lipgloss.Height of the bordered header and footer, three lines each
WikiMargin == 6
\* the number of lines of a page the search returns
WikiPageLines == 30

\* the result messages of searchCmd(q): an error, or the formatted page
SearchResults(q) ==
    { [err |-> TRUE, content |-> EmptyContent],
      [err |-> FALSE, content |-> [file |-> <<q>>, lines |-> WikiPageLines]] }

\* the keys of the Wikipedia CLI that no case of the key switch names
WikiKeys == { "a", "down", "up", "pgdown" }

InitWiki ==
    /\ variant = "wikipedia"
    /\ input = <<>>
    /\ viewport = ZeroViewport
    /\ ready = FALSE
    /\ quit = FALSE
    /\ showViewport = FALSE
    /\ searching = FALSE
    /\ query = <<>>
    /\ content = EmptyContent
    /\ pending = <<>>
    /\ directory = StartingPath
    /\ text = NothingYet
    /\ history = <<>>
    /\ historyIndex = -1
    /\ clihistory = <<>>
    /\ fileViewMode = FALSE
    /\ fileViewport = ZeroViewport
    /\ fileContent = EmptyContent
    /\ peer = <<>>
    /\ session = 1
    /\ ChatInitial
    /\ HttpInitial

\* case "ctrl+c", "q"
WikiQuit(key) ==
    /\ ~quit
    /\ key \in { "ctrl+c", "q" }
    /\ quit' = TRUE
    /\ UNCHANGED <<variant, input, viewport, ready, showViewport, searching, query,
                   content, pending>>
    /\ UNCHANGED shellVars

\* WikiEsc that quits while the results are shown as well
WikiEscQuits ==
    /\ ~quit
    /\ quit' = TRUE
    /\ UNCHANGED <<variant, input, viewport, ready, showViewport, searching, query,
                   content, pending>>
    /\ UNCHANGED shellVars

\* case "esc"
WikiEsc ==
    /\ ~quit
    /\ IF showViewport
       THEN showViewport' = FALSE /\ UNCHANGED quit
       ELSE quit' = TRUE /\ UNCHANGED showViewport
    /\ UNCHANGED <<variant, input, viewport, ready, searching, query, content, pending>>
    /\ UNCHANGED shellVars

\* WikiEnter that searches while a search is running as well
WikiEnterWhileSearching ==
    /\ ~quit
    /\ IF showViewport
       THEN UNCHANGED <<searching, query, input, pending>>
       ELSE /\ searching' = TRUE
            /\ query' = input
            /\ input' = <<>>
            /\ pending' = Append(pending, input)
    /\ UNCHANGED <<variant, viewport, ready, quit, showViewport, content>>
    /\ UNCHANGED shellVars

\* case "enter"
WikiEnter ==
    /\ ~quit
    /\ IF showViewport \/ searching
       THEN UNCHANGED <<searching, query, input, pending>>
       ELSE /\ searching' = TRUE
            /\ query' = input
            /\ input' = <<>>
            /\ pending' = Append(pending, input)
    /\ UNCHANGED <<variant, viewport, ready, quit, showViewport, content>>
    /\ UNCHANGED shellVars

\* case searchResultMsg, for the message r
WikiResult(r) ==
    /\ ~quit
    /\ pending # <<>>
    /\ pending' = Tail(pending)
    /\ searching' = FALSE
    /\ IF r.err
       THEN UNCHANGED <<content, viewport, showViewport, ready>>
       ELSE /\ content' = r.content
            /\ viewport' = NewViewport(WikiViewportHeight, r.content)
            /\ showViewport' = TRUE
            /\ ready' = TRUE
    /\ UNCHANGED <<variant, input, quit, query>>
    /\ UNCHANGED shellVars

\* the search command of the oldest pending search delivers its message
WikiSearchResult ==
    /\ pending # <<>>
    /\ \E r \in SearchResults(Head(pending)) : WikiResult(r)

\* case tea.WindowSizeMsg
WikiWindowSize(h) ==
    /\ ~quit
    /\ IF showViewport
       THEN IF ~ready
            THEN viewport' = NewViewport(h - WikiMargin, content) /\ ready' = TRUE
            ELSE viewport' = [viewport EXCEPT !.Height = h - WikiMargin] /\ UNCHANGED ready
       ELSE UNCHANGED <<viewport, ready>>
    /\ UNCHANGED <<variant, input, quit, showViewport, searching, query, content, pending>>
    /\ UNCHANGED shellVars

\* any other key: the last block of Update hands it to the viewport while the
\* results are shown, and to the text input while no search is running
WikiKey(key) ==
    /\ ~quit
    /\ key \in WikiKeys
    /\ IF showViewport /\ ready
       THEN viewport' = ViewportUpdate(viewport, key) /\ UNCHANGED input
       ELSE IF ~showViewport /\ ~searching /\ key = "a" /\ Len(input) < MaxQuery
            THEN input' = Append(input, key) /\ UNCHANGED viewport
       ELSE UNCHANGED <<viewport, input>>
    /\ UNCHANGED <<variant, ready, quit, showViewport, searching, query, content, pending>>
    /\ UNCHANGED shellVars

(***************************************************************************)
(* The SSH server (startServer): bubbletea.Middleware(teaHandler) runs one *)
(* program per connection.  The variables hold the model of the connection *)
(* whose program handles the next event, peer the model of the other one.  *)
(***************************************************************************)
\* the model value of the connection that handles the next event
Model ==
    [ input |-> input, viewport |-> viewport, ready |-> ready,
      directory |-> directory, text |-> text, history |-> history,
      historyIndex |-> historyIndex, clihistory |-> clihistory,
      fileViewMode |-> fileViewMode, fileViewport |-> fileViewport,
      fileContent |-> fileContent, quit |-> quit ]

initialModel ==
    [ input |-> <<>>,
      viewport |-> IF variant = "fred" THEN ZeroViewport
                   ELSE NewViewport(PortfolioViewportHeight, EmptyContent),
      ready |-> FALSE,
      directory |-> StartingPath,
      text |-> NothingYet,
      history |-> <<>>,
      historyIndex |-> -1,
      clihistory |-> IF variant = "fred" THEN <<HeaderBlock, WelcomeFred>>
                     ELSE <<WelcomePortfolio>>,
      fileViewMode |-> FALSE,
      fileViewport |-> ZeroViewport,
      fileContent |-> EmptyContent,
      quit |-> FALSE ]

\* the program of a connection runs on the model m
Runs(m) ==
    /\ input' = m.input
    /\ viewport' = m.viewport
    /\ ready' = m.ready
    /\ directory' = m.directory
    /\ text' = m.text
    /\ history' = m.history
    /\ historyIndex' = m.historyIndex
    /\ clihistory' = m.clihistory
    /\ fileViewMode' = m.fileViewMode
    /\ fileViewport' = m.fileViewport
    /\ fileContent' = m.fileContent
    /\ quit' = m.quit

\* teaHandler that hands the model of the running connection to the new one
teaHandlerSharesModel ==
    /\ peer = <<>>
    /\ peer' = <<Model>>
    /\ UNCHANGED <<variant, input, directory, text, history, historyIndex, clihistory,
                   fileViewMode, fileViewport, fileContent, ready, quit, viewport>>
    /\ UNCHANGED <<showViewport, searching, query, content, pending, session,
                   chatVars, httpVars>>

\* a second connection arrives
teaHandler ==
    /\ peer = <<>>
    /\ peer' = <<initialModel>>
    /\ UNCHANGED <<variant, input, directory, text, history, historyIndex, clihistory,
                   fileViewMode, fileViewport, fileContent, ready, quit, viewport>>
    /\ UNCHANGED <<showViewport, searching, query, content, pending, session,
                   chatVars, httpVars>>

\* the next event belongs to the other connection
Schedule ==
    /\ peer # <<>>
    /\ Runs(peer[1])
    /\ peer' = <<Model>>
    /\ session' = 3 - session
    /\ UNCHANGED <<variant, showViewport, searching, query, content, pending,
                   chatVars, httpVars>>

(***************************************************************************)
(* The chat CLI (variant = "chat", src/ChatgptCLI/main.go) and the chat    *)
(* server (variant = "chatserver", serverversion/serverversion.go).  A     *)
(* streamed text is the sequence of its chunks; a chunk names the session  *)
(* and the question whose completion request produced it.                  *)
(***************************************************************************)
serverPassword == <<"c", "t", "k", "8", "9", "8">>

\* the lines typed into the password input
Passwords == { serverPassword, <<"x">> }

\* the lines typed into the question input
Questions == { <<"a">> }

systemPrompt == [Role |-> "system", Content |-> <<"systemPrompt">>]

UserMessage(question) == [Role |-> "user", Content |-> question]

AssistantMessage(reply) == [Role |-> "assistant", Content |-> reply]

\* the number of user messages of a chat history
UserCount(h) == Cardinality({ i \in 1..Len(h) : h[i].Role = "user" })

\* response.Choices[0].Delta.Content of a callback of the stream st
Chunk(st) == [session |-> st.session, question |-> st.question, error |-> FALSE]

\* fmt.Sprintf of the error of the stream st
ErrorChunk(st) == [session |-> st.session, question |-> st.question, error |-> TRUE]

\* the message list getResponseCmd builds from its arguments
Messages(question, sent) == <<systemPrompt>> \o sent \o <<UserMessage(question)>>

\* the command getResponseCmd(question, m.apiKey, m.chatHistory) of session s
getResponseCmd(s, question, sent) ==
    [session |-> s, question |-> question, chatHistory |-> sent]

\* everything but the chat CLI
notChatVars == <<input, directory, text, history, historyIndex, clihistory,
                 fileViewMode, fileViewport, fileContent, ready, quit, viewport,
                 showViewport, searching, query, content, pending, peer, session,
                 httpVars>>

\* m.textInput.Update / m.passwordInput.Update: the last block of Update
ChatType(s, line) ==
    /\ s \notin closed
    /\ IF ~authenticated[s]
       THEN /\ line \in Passwords
            /\ passwordInput' = [passwordInput EXCEPT ![s] = line]
            /\ UNCHANGED textInput
       ELSE /\ line \in Questions
            /\ ~submitted[s] \/ (~isStreaming[s] /\ showResponse[s])
            /\ textInput' = [textInput EXCEPT ![s] = line]
            /\ UNCHANGED passwordInput
    /\ UNCHANGED <<submitted, isStreaming, showResponse, response, chatHistory,
                   authenticated, authFailed, closed, globalResponse, isStreamComplete,
                   cmds, streams, updates>>
    /\ UNCHANGED <<variant, notChatVars>>

\* the enter key submits the question: both branches of case "enter"
ChatSubmit(s) ==
    LET question == textInput[s]
        sent == Append(chatHistory[s], UserMessage(question))
    IN  /\ submitted' = [submitted EXCEPT ![s] = TRUE]
        /\ isStreaming' = [isStreaming EXCEPT ![s] = TRUE]
        /\ showResponse' = [showResponse EXCEPT ![s] = IF ~submitted[s] THEN TRUE ELSE @]
        /\ chatHistory' = [chatHistory EXCEPT ![s] = sent]
        /\ textInput' = [textInput EXCEPT ![s] = <<>>]
        /\ cmds' = cmds \cup { getResponseCmd(s, question, sent) }
        /\ updates' = [updates EXCEPT ![s] = @ + 1]
        /\ UNCHANGED <<passwordInput, response, authenticated, authFailed, closed,
                       globalResponse, isStreamComplete, streams>>

\* ChatEnter that lets every password in
ChatEnterAnyPassword(s, bound) ==
    /\ s \notin closed
    /\ UserCount(chatHistory[s]) < bound
    /\ IF ~authenticated[s]
       THEN /\ authenticated' = [authenticated EXCEPT ![s] = TRUE]
            /\ authFailed' = [authFailed EXCEPT ![s] = FALSE]
            /\ UNCHANGED passwordInput
            /\ UNCHANGED <<textInput, submitted, isStreaming, showResponse, response,
                           chatHistory, closed, globalResponse, isStreamComplete,
                           cmds, streams, updates>>
       ELSE IF ~submitted[s] /\ textInput[s] # <<>> THEN ChatSubmit(s)
       ELSE IF showResponse[s] /\ ~isStreaming[s] /\ textInput[s] # <<>> THEN ChatSubmit(s)
       ELSE UNCHANGED chatVars
    /\ UNCHANGED <<variant, notChatVars>>

\* case "enter"; a session asks at most `bound` questions
ChatEnter(s, bound) ==
    /\ s \notin closed
    /\ UserCount(chatHistory[s]) < bound
    /\ IF ~authenticated[s]
       THEN /\ IF passwordInput[s] = serverPassword
               THEN /\ authenticated' = [authenticated EXCEPT ![s] = TRUE]
                    /\ authFailed' = [authFailed EXCEPT ![s] = FALSE]
                    /\ UNCHANGED passwordInput
               ELSE /\ authFailed' = [authFailed EXCEPT ![s] = TRUE]
                    /\ passwordInput' = [passwordInput EXCEPT ![s] = <<>>]
                    /\ UNCHANGED authenticated
            /\ UNCHANGED <<textInput, submitted, isStreaming, showResponse, response,
                           chatHistory, closed, globalResponse, isStreamComplete,
                           cmds, streams, updates>>
       ELSE IF ~submitted[s] /\ textInput[s] # <<>> THEN ChatSubmit(s)
       ELSE IF showResponse[s] /\ ~isStreaming[s] /\ textInput[s] # <<>> THEN ChatSubmit(s)
       ELSE UNCHANGED chatVars
    /\ UNCHANGED <<variant, notChatVars>>

\* case "ctrl+c", "esc"
ChatQuit(s) ==
    /\ s \notin closed
    /\ closed' = closed \cup {s}
    /\ UNCHANGED <<textInput, passwordInput, submitted, isStreaming, showResponse,
                   response, chatHistory, authenticated, authFailed,
                   globalResponse, isStreamComplete, cmds, streams, updates>>
    /\ UNCHANGED <<variant, notChatVars>>

\* the function of getResponseCmd runs: it resets the package-level
\* variables, starts the streaming goroutine and returns the message "started"
ChatStart(c) ==
    /\ c \in cmds
    /\ cmds' = cmds \ {c}
    /\ globalResponse' = <<>>
    /\ isStreamComplete' = FALSE
    /\ streams' = streams \cup
          { [session |-> c.session, question |-> UserCount(c.chatHistory),
             left |-> MaxChunks, messages |-> Messages(c.question, c.chatHistory)] }
    /\ updates' = [updates EXCEPT ![c.session] = @ + 1]
    /\ UNCHANGED <<textInput, passwordInput, submitted, isStreaming, showResponse,
                   response, chatHistory, authenticated, authFailed, closed>>
    /\ UNCHANGED <<variant, notChatVars>>

\* streamCallback with done = false
StreamContent(st) ==
    /\ st \in streams
    /\ st.left > 0
    /\ globalResponse' = Append(globalResponse, Chunk(st))
    /\ streams' = (streams \ {st}) \cup { [st EXCEPT !.left = @ - 1] }
    /\ UNCHANGED <<textInput, passwordInput, submitted, isStreaming, showResponse,
                   response, chatHistory, authenticated, authFailed, closed,
                   isStreamComplete, cmds, updates>>
    /\ UNCHANGED <<variant, notChatVars>>

\* streamCallback with done = true, with or without an error
StreamDone(st, failed) ==
    /\ st \in streams
    /\ ~failed => st.left = 0
    /\ isStreamComplete' = TRUE
    /\ globalResponse' = IF failed THEN Append(globalResponse, ErrorChunk(st))
                          ELSE globalResponse
    /\ streams' = streams \ {st}
    /\ UNCHANGED <<textInput, passwordInput, submitted, isStreaming, showResponse,
                   response, chatHistory, authenticated, authFailed, closed,
                   cmds, updates>>
    /\ UNCHANGED <<variant, notChatVars>>

\* client.ChatCompletion returns an error before any callback
StreamNotStarted(st) ==
    /\ st \in streams
    /\ st.left = MaxChunks
    /\ isStreamComplete' = TRUE
    /\ globalResponse' = <<ErrorChunk(st)>>
    /\ streams' = streams \ {st}
    /\ UNCHANGED <<textInput, passwordInput, submitted, isStreaming, showResponse,
                   response, chatHistory, authenticated, authFailed, closed,
                   cmds, updates>>
    /\ UNCHANGED <<variant, notChatVars>>

\* case streamUpdateMsg: the message "started" or a tick
ChatStreamUpdate(s) ==
    /\ s \notin closed
    /\ updates[s] > 0
    /\ IF isStreaming[s]
       THEN /\ response' = [response EXCEPT ![s] = globalResponse]
            /\ IF isStreamComplete
               THEN /\ isStreaming' = [isStreaming EXCEPT ![s] = FALSE]
                    /\ submitted' = [submitted EXCEPT ![s] = FALSE]
                    /\ chatHistory' = [chatHistory EXCEPT ![s] =
                          IF globalResponse # <<>>
                          THEN Append(@, AssistantMessage(globalResponse)) ELSE @]
                    /\ updates' = [updates EXCEPT ![s] = @ - 1]
               ELSE UNCHANGED <<isStreaming, submitted, chatHistory, updates>>
       ELSE /\ updates' = [updates EXCEPT ![s] = @ - 1]
            /\ UNCHANGED <<response, isStreaming, submitted, chatHistory>>
    /\ UNCHANGED <<textInput, passwordInput, showResponse, authenticated, authFailed,
                   closed, globalResponse, isStreamComplete, cmds, streams>>
    /\ UNCHANGED <<variant, notChatVars>>

\* initialModel of the program v, the chat CLI or the chat server
InitChat(v) ==
    /\ variant = v
    /\ input = <<>>
    /\ directory = StartingPath
    /\ text = NothingYet
    /\ history = <<>>
    /\ historyIndex = -1
    /\ clihistory = <<>>
    /\ fileViewMode = FALSE
    /\ fileViewport = ZeroViewport
    /\ fileContent = EmptyContent
    /\ ready = FALSE
    /\ quit = FALSE
    /\ viewport = ZeroViewport
    /\ showViewport = FALSE
    /\ searching = FALSE
    /\ query = <<>>
    /\ content = EmptyContent
    /\ pending = <<>>
    /\ peer = <<>>
    /\ session = 1
    /\ ChatInitial
    /\ HttpInitial

\* the events of the chat CLI, every session asking at most `bound` questions
ChatEvents(bound) ==
    \/ \E s \in ChatSessions :
          \/ \E l \in Passwords \cup Questions : ChatType(s, l)
          \/ ChatEnter(s, bound)
          \/ ChatQuit(s)
          \/ ChatStreamUpdate(s)
    \/ \E c \in cmds : ChatStart(c)
    \/ \E st \in streams :
          \/ StreamContent(st)
          \/ \E failed \in BOOLEAN : StreamDone(st, failed)
          \/ StreamNotStarted(st)

(***************************************************************************)
(* The HTTP status checker (variant = "http", src/http-codes/main.go):     *)
(* input is the value of m.textInput, checks the checkServer commands      *)
(* whose message has not been delivered yet.                               *)
(***************************************************************************)
\* everything but the HTTP status checker
notHttpVars == <<directory, text, history, historyIndex, clihistory,
                 fileViewMode, fileViewport, fileContent, ready, viewport,
                 showViewport, searching, query, content, pending, peer, session,
                 chatVars>>

\* the messages checkServer(url) can return: a status code, or an error
CheckResults == { [status |-> 200, err |-> FALSE], [status |-> 404, err |-> FALSE],
                  [status |-> 0, err |-> TRUE] }

\* the keys typed into the URL input
UrlKeys == { "a", "b" }

InitHttp ==
    /\ variant = "http"
    /\ input = <<>>
    /\ directory = StartingPath
    /\ text = NothingYet
    /\ history = <<>>
    /\ historyIndex = -1
    /\ clihistory = <<>>
    /\ fileViewMode = FALSE
    /\ fileViewport = ZeroViewport
    /\ fileContent = EmptyContent
    /\ ready = FALSE
    /\ quit = FALSE
    /\ viewport = ZeroViewport
    /\ showViewport = FALSE
    /\ searching = FALSE
    /\ query = <<>>
    /\ content = EmptyContent
    /\ pending = <<>>
    /\ peer = <<>>
    /\ session = 1
    /\ ChatInitial
    /\ HttpInitial

\* case tea.KeyMsg, the enter key
HttpEnter ==
    /\ ~quit
    /\ IF state = "StateGetURL"
       THEN /\ state' = "StateChecking"
            /\ checks' = Append(checks, input)
            /\ UNCHANGED quit
       ELSE IF state = "StateDone"
            THEN quit' = TRUE /\ UNCHANGED <<state, checks>>
       ELSE UNCHANGED <<state, checks, quit>>
    /\ UNCHANGED <<variant, input, status, err>>
    /\ UNCHANGED notHttpVars

\* case tea.KeyMsg, ctrl+c
HttpCtrlC ==
    /\ ~quit
    /\ quit' = TRUE
    /\ UNCHANGED <<variant, input, state, status, err, checks>>
    /\ UNCHANGED notHttpVars

\* case tea.KeyMsg, any other key: typed into the URL in StateGetURL, it
\* ends the program in StateDone and does nothing in StateChecking
HttpKey(key) ==
    /\ ~quit
    /\ key \in UrlKeys
    /\ IF state = "StateGetURL"
       THEN /\ Len(input) < MaxUrl
            /\ input' = Append(input, key)
            /\ UNCHANGED quit
       ELSE IF state = "StateDone"
            THEN quit' = TRUE /\ UNCHANGED input
       ELSE UNCHANGED <<input, quit>>
    /\ UNCHANGED <<variant, state, status, err, checks>>
    /\ UNCHANGED notHttpVars

\* HttpResult that leaves the state as it is
HttpResultKeepsState ==
    /\ ~quit
    /\ checks # <<>>
    /\ checks' = Tail(checks)
    /\ \E r \in CheckResults :
          /\ status' = IF r.err THEN status ELSE r.status
          /\ err' = IF r.err THEN TRUE ELSE err
    /\ UNCHANGED <<variant, input, quit, state>>
    /\ UNCHANGED notHttpVars

\* case statusMsg, case errMsg: the message of the oldest pending check
HttpResult ==
    /\ ~quit
    /\ checks # <<>>
    /\ checks' = Tail(checks)
    /\ state' = "StateDone"
    /\ \E r \in CheckResults :
          /\ status' = IF r.err THEN status ELSE r.status
          /\ err' = IF r.err THEN TRUE ELSE err
    /\ UNCHANGED <<variant, input, quit>>
    /\ UNCHANGED notHttpVars

(***************************************************************************)
(* The specifications.                                                     *)
(***************************************************************************)
\* the events both programs handle with the same code
SharedEvents(lines) ==
    \/ \E k \in DismissKeys : FileViewDismiss(k)
    \/ \E h \in WinHeights : FileViewResize(h)
    \/ \E k \in ScrollKeys : FileViewKey(k)
    \/ \E n \in {ContentLines(clihistory, ready)} : \E l \in lines : TypeLine(l, n)
    \/ CtrlC
    \/ \E h \in ShellHeights : WindowSize(h)

\* a session of the file-picker shell that submits at most `bound` lines
FredEvents(lines, bound) ==
    \/ SharedEvents(lines)
    \/ Enter(bound)
    \/ Up
    \/ Down

\* a session of the Portfolio shell that submits at most `bound` lines
PortfolioEvents(lines, bound) ==
    \/ SharedEvents(lines)
    \/ PortfolioEnter(bound)
    \/ PortfolioUp
    \/ PortfolioDown

\* the file-picker shell, navigating the backing store
InitFred == Init /\ variant = "fred"

Next == FredEvents(Lines, MaxHist)

Spec == InitFred /\ [][Next]_vars

\* the file-picker shell, changing directory and opening the pager
NextNav == FredEvents(NavLines, MaxHist)

SpecNav == InitFred /\ [][NextNav]_vars

\* both shells, walking the command history and opening the pager
NextWalk == FredEvents(WalkLines, MaxWalk) \/ PortfolioEvents(WalkLines, MaxWalk)

SpecWalk == Init /\ [][NextWalk]_vars

\* both shells, running commands that write to the transcript and completing
\* the typed line
NextShell ==
    \/ FredEvents(ShellLines, MaxCmd)
    \/ PortfolioEvents(ShellLines, MaxCmd)
    \/ Tab

SpecShell == Init /\ [][NextShell]_vars

\* both shells, running commands that fail, call the network or exit
NextSession ==
    \/ \E n \in {ContentLines(clihistory, ready)} :
           \E l \in SessionLines : TypeLine(l, n)
    \/ \E h \in ShellHeights : WindowSize(h)
    \/ CtrlC
    \/ Enter(MaxSess)
    \/ PortfolioEnter(MaxSess)

SpecSession == Init /\ [][NextSession]_vars

\* both shells, scrolling the transcript
NextScroll ==
    \/ \E n \in {ContentLines(clihistory, ready)} :
           \E l \in ScrollLines : TypeLine(l, n)
    \/ \E h \in ShellHeights : WindowSize(h)
    \/ \E k \in PageKeys : PageKey(k)
    \/ Enter(MaxScroll)
    \/ Up
    \/ Down
    \/ PortfolioEnter(MaxScroll)
    \/ PortfolioUp
    \/ PortfolioDown

SpecScroll == Init /\ [][NextScroll]_vars

ServerLines == { LineCdA, CmdHelp }

\* two connections of the server
NextServer ==
    \/ \E n \in {ContentLines(clihistory, ready)} :
           \E l \in ServerLines : TypeLine(l, n)
    \/ \E h \in ShellHeights : WindowSize(h)
    \/ Enter(MaxServ) \/ Up
    \/ PortfolioEnter(MaxServ) \/ PortfolioUp
    \/ teaHandler
    \/ Schedule

SpecServer == Init /\ [][NextServer]_vars

\* the chat CLI, one program
NextChat == ChatEvents(MaxAsk)

SpecChat == InitChat("chat") /\ [][NextChat]_vars

\* the chat server, two sessions
NextChatServer == ChatEvents(MaxServAsk)

SpecChatServer == InitChat("chatserver") /\ [][NextChatServer]_vars

\* the chat server, two sessions at the password screen, the first of which
\* goes on to ask questions
NextChatAuth ==
    \/ \E s \in ChatSessions :
          \/ \E l \in Passwords : ChatType(s, l)
          \/ ChatEnter(s, MaxServAsk)
          \/ ChatStreamUpdate(s)
    \/ \E l \in Questions : ChatType(1, l)
    \/ ChatQuit(1)
    \/ \E c \in cmds : ChatStart(c)
    \/ \E st \in streams :
          \/ StreamContent(st)
          \/ \E failed \in BOOLEAN : StreamDone(st, failed)
          \/ StreamNotStarted(st)

SpecChatAuth == InitChat("chatserver") /\ [][NextChatAuth]_vars

\* the HTTP status checker
NextHttp ==
    \/ HttpEnter
    \/ HttpCtrlC
    \/ \E k \in UrlKeys : HttpKey(k)
    \/ HttpResult

\* the command of a check returns its message, and a running program
\* handles it
SpecHttp == InitHttp /\ [][NextHttp]_vars /\ WF_vars(HttpResult)

\* the Wikipedia CLI
NextWiki ==
    \/ \E k \in { "ctrl+c", "q" } : WikiQuit(k)
    \/ WikiEsc
    \/ WikiEnter
    \/ WikiSearchResult
    \/ \E h \in WinHeights : WikiWindowSize(h)
    \/ \E k \in WikiKeys : WikiKey(k)

SpecWiki == InitWiki /\ [][NextWiki]_vars

\* the file-picker shell, completing the typed line
NextTab ==
    \/ \E n \in {ContentLines(clihistory, ready)} : \E l \in TabLines : TypeLine(l, n)
    \/ Tab
    \/ Enter(MaxTab)

SpecTab == InitFred /\ [][NextTab]_vars

\* the file-picker shell, completing the typed line in a directory that has
\* an entry with a space in its name
NextRetab ==
    \/ \E n \in {ContentLines(clihistory, ready)} : \E l \in RetabLines : TypeLine(l, n)
    \/ Tab
    \/ Enter(MaxTab)

SpecRetab == InitFred /\ [][NextRetab]_vars

(***************************************************************************)
(* Properties.                                                             *)
(***************************************************************************)
\* the step submits `line` (only the enter branch appends to the history)
Submitted(line) == input = line /\ history' = Append(history, line)

\* a name of the backing store that is hidden
HiddenName(name) == HasPrefix(name, <<".">>) /\ name # <<".">> /\ name # DotDot

\* C1: after any sequence of submitted lines the current directory resolves
\* to the root path or a descendant of it, never to an ancestor of the root.
C1_StaysInsideRoot ==
    /\ Resolve(directory) # NoNode
    /\ HasPrefix(Resolve(directory), Cwd)

\* the step is a submission of the line in the input buffer
SubmittedInput == history' = Append(history, input)

\* the file a cat line of the input buffer names, and the result of reading it
CatArg == Drop(input, 4)

CatRead == ReadFile(directory \o <<"/">> \o CatArg)

\* C2: cd .. at the root leaves the current directory equal to the root,
\* however often it is repeated; when the current directory has a parent
\* segment, cd .. removes exactly its last '/'-separated segment.
C2_CdUpPopsOneSegment ==
    [][ Submitted(LineCdUp) =>
          IF directory = StartingPath
          THEN directory' = StartingPath
          ELSE \E i \in 1..Len(directory) :
                  /\ directory[i] = "/"
                  /\ \A j \in (i + 1)..Len(directory) : directory[j] # "/"
                  /\ directory' = Take(directory, i - 1) ]_vars

C2_Witness ==
    /\ history = <<LineCdA, LineCdUp, LineCdUp>>
    /\ directory = StartingPath

\* C3 as stated: every cd target that starts with '.' is rejected with the
\* hidden-path denial and leaves the current directory unchanged.
C3_EveryDotTargetDenied ==
    [][ (SubmittedInput /\ HasPrefix(input, CdPrefix) /\ HasPrefix(Drop(input, 3), <<".">>))
          => /\ directory' = directory
             /\ text' = HiddenDirMsg
             /\ clihistory' = Append(clihistory, HiddenDirMsg) ]_vars

\* C3 amended: every cd target that starts with '.', other than exactly "..",
\* is rejected with the hidden-path denial and leaves the current directory
\* unchanged.
C3_DotTargetDeniedExceptDotDot ==
    [][ (SubmittedInput /\ HasPrefix(input, CdPrefix) /\ HasPrefix(Drop(input, 3), <<".">>)
         /\ Drop(input, 3) # DotDot)
          => /\ directory' = directory
             /\ text' = HiddenDirMsg
             /\ clihistory' = Append(clihistory, HiddenDirMsg) ]_vars

C3_Witness ==
    /\ history = <<LineCdA, LineCdH>>
    /\ directory = StartingPath \o <<"/">> \o NameA
    /\ text = HiddenDirMsg
    /\ Last(clihistory) = HiddenDirMsg

\* C4: hidden entries are never navigable or readable: the current directory
\* never contains a dot-prefixed segment and the pager never shows a file
\* whose path has a dot-prefixed component.
C4_NoHiddenAccess ==
    /\ \A i \in 1..Len(Split(directory, "/")) : ~HiddenName(Split(directory, "/")[i])
    /\ fileViewMode => \A i \in 1..Len(fileContent.file) : ~HiddenName(fileContent.file[i])

\* C5: when cat fails to read the file, the shell does not enter pager mode
\* and appends exactly one block describing the failure to the transcript.
C5_ReadFailureAppendsBlock ==
    [][ (SubmittedInput /\ HasPrefix(input, CatPrefix) /\ ~HasPrefix(CatArg, <<".">>)
         /\ ~CatRead.ok)
          => /\ ~fileViewMode'
             /\ Len(clihistory') = Len(clihistory) + 1
             /\ SubSeq(clihistory', 1, Len(clihistory)) = clihistory
             /\ HasPrefix(Last(clihistory'), ReadErrMsg) ]_vars

\* C6: an event is routed either to the pager or to the command dispatch:
\* while the pager is open no step changes the current directory, the command
\* history, the history cursor, the transcript or the input buffer, and an
\* event other than a dismiss key leaves the pager open on the same content;
\* while the pager is closed no step that keeps it closed touches the pager.
C6_PagerExclusive ==
    [][ /\ fileViewMode =>
             UNCHANGED <<directory, history, historyIndex, clihistory, input, text>>
        /\ (fileViewMode /\ ~(\E k \in DismissKeys : FileViewDismiss(k)))
             => fileViewMode' /\ fileContent' = fileContent
        /\ (~fileViewMode /\ ~fileViewMode')
             => UNCHANGED <<fileViewport, fileContent>> ]_vars

C6_Witness ==
    /\ fileViewMode
    /\ fileViewport.YOffset > 0
    /\ fileViewport.Height \notin {FredPagerHeight, PortfolioPagerHeight}
    /\ Len(history) > 1

\* C7: the pager mode flag goes from normal to paging only by submitting a
\* cat line whose read succeeds, and from paging to normal only on a dismiss
\* key.
C7_PagerTwoStates ==
    [][ /\ (~fileViewMode /\ fileViewMode')
             => SubmittedInput /\ HasPrefix(input, CatPrefix) /\ CatRead.ok
        /\ (fileViewMode /\ ~fileViewMode')
             => \E k \in DismissKeys : FileViewDismiss(k) ]_vars

C7_Witness ==
    /\ ~fileViewMode
    /\ history = <<LineCatX, LineCatF>>
    /\ directory = StartingPath
    /\ Last(clihistory) = LineCatF

\* C8: leaving the pager discards the captured content and the scroll
\* position, and every successful cat starts with the content of the file
\* just read at scroll offset 0.
C8_FreshPager ==
    [][ /\ (fileViewMode /\ ~fileViewMode')
             => fileContent' = EmptyContent /\ fileViewport' = ZeroViewport
        /\ (~fileViewMode /\ fileViewMode')
             => /\ fileContent' = CatRead.content
                /\ fileViewport'.content = CatRead.content
                /\ fileViewport'.YOffset = 0 ]_vars

C8_Witness ==
    /\ fileViewMode
    /\ history = <<LineCatF, LineCdA, LineCatF>>
    /\ fileContent = ContentOf(<<NameW, NameA, NameF>>)
    /\ fileViewport.YOffset = 0

\* C9: the history cursor is either -1 (not browsing) or a valid offset
\* 0..len(history)-1 into the command history.
C9_CursorInRange ==
    historyIndex = -1 \/ historyIndex \in 0..(Len(history) - 1)

C9_Witness ==
    /\ Len(history) >= 3
    /\ historyIndex = Len(history) - 1

\* C10: after a recall (up or down) that leaves the cursor browsing at offset
\* k, the input buffer holds history[len-1-k], and k is within 0..len-1.
C10_RecallWalk ==
    [][ ((Up \/ Down \/ PortfolioUp \/ PortfolioDown) /\ historyIndex' # -1)
          => /\ historyIndex' \in 0..(Len(history) - 1)
             /\ input' = history[Len(history) - historyIndex'] ]_vars

C10_Witness ==
    /\ Len(history) >= 3
    /\ historyIndex = 1
    /\ input = history[Len(history) - 1]
    /\ input # Last(history)

\* the enter key of either shell, in the command model
ShellEnter == Enter(MaxCmd) \/ PortfolioEnter(MaxCmd)

\* C11: the enter key appends the raw input line to the command history
\* whatever the line is (empty, a repeat, unknown, clear, a failing command)
\* and resets the history cursor to -1.
C11_EnterRecordsLine ==
    [][ ShellEnter => /\ history' = Append(history, input)
                      /\ historyIndex' = -1 ]_vars

C11_Witness ==
    /\ history = << <<>>, <<>> >>
    /\ historyIndex = -1
    /\ Len(clihistory) = (IF variant = "fred" THEN 4 ELSE 3)

\* C12: the up key selects the most recent entry when not browsing,
\* otherwise moves one entry into the past, and at the oldest entry leaves
\* the cursor and the recalled line as they are (no wraparound).
C12_UpSaturates ==
    [][ ((Up \/ PortfolioUp) /\ Len(history) > 0)
          => /\ historyIndex = -1
                  => historyIndex' = 0 /\ input' = Last(history)
             /\ historyIndex \in 0..(Len(history) - 2)
                  => /\ historyIndex' = historyIndex + 1
                     /\ input' = history[Len(history) - historyIndex - 1]
             /\ historyIndex = Len(history) - 1
                  => historyIndex' = historyIndex /\ input' = history[1] ]_vars

C12_Witness ==
    /\ Len(history) >= 3
    /\ historyIndex = Len(history) - 1
    /\ input = history[1]
    /\ history[1] # history[2]
    /\ history[1] # Last(history)

\* C13: the down key moves one entry toward the present; from the most
\* recent entry it leaves the history (cursor -1) and empties the input;
\* recall leaves the history only from the most recent entry; and the down
\* key when not browsing changes neither the cursor nor the input.
C13_DownTowardPresent ==
    [][ /\ (Down \/ PortfolioDown)
          => /\ historyIndex > 0
                  => /\ historyIndex' = historyIndex - 1
                     /\ input' = history[Len(history) - historyIndex + 1]
             /\ historyIndex = 0 => historyIndex' = -1 /\ input' = <<>>
             /\ historyIndex = -1 => UNCHANGED <<historyIndex, input>>
        /\ ((Up \/ Down \/ PortfolioUp \/ PortfolioDown)
               /\ historyIndex # -1 /\ historyIndex' = -1)
          => historyIndex = 0 ]_vars

C13_Witness ==
    /\ Len(history) >= 2
    /\ historyIndex = -1
    /\ input = <<>>
    /\ Last(history) # <<>>
    /\ ~fileViewMode
    /\ ~quit

\* C14: the command history is append-only: no step removes, reorders or
\* rewrites an entry, only the enter key adds one, and the up and down keys
\* change nothing but the history cursor and the input buffer.
C14_HistoryAppendOnly ==
    [][ /\ Len(history') >= Len(history)
        /\ \A i \in 1..Len(history) : history'[i] = history[i]
        /\ ~ShellEnter => history' = history
        /\ (Up \/ Down \/ PortfolioUp \/ PortfolioDown)
             => UNCHANGED <<variant, directory, text, history, clihistory,
                            fileViewMode, fileViewport, fileContent, ready, quit>> ]_vars

C14_Witness ==
    /\ history = <<LineUnknown, CmdClear>>
    /\ historyIndex = 1
    /\ input = <<"c", "d">>
    /\ clihistory = <<HeaderBlock>>

\* the number of lines submitted since the last clear
RECURSIVE ExecutedSinceClear(_)
ExecutedSinceClear(h) ==
    IF h = <<>> \/ Last(h) = CmdClear THEN 0
    ELSE 1 + ExecutedSinceClear(Front(h))

\* the banner entries the transcript holds: those of initialModel, or the
\* ones the clear branch leaves
RetainedBanner ==
    IF \E i \in 1..Len(history) : history[i] = CmdClear
    THEN (IF variant = "fred" THEN 1 ELSE 0)
    ELSE (IF variant = "fred" THEN 2 ELSE 1)

\* C15: beyond the retained banner entries, the transcript holds one block
\* for every command other than clear executed since the last clear.
C15_OneBlockPerCommand ==
    Len(clihistory) = RetainedBanner + ExecutedSinceClear(history)

\* C16: submitting clear leaves the transcript empty, or holding exactly the
\* one banner entry where a banner is retained, whatever its length was;
\* clear itself adds no block.
C16_ClearEmptiesTranscript ==
    [][ (ShellEnter /\ input = CmdClear)
          => /\ Len(clihistory') = (IF variant = "fred" THEN 1 ELSE 0)
             /\ \A i \in 1..Len(clihistory') : clihistory'[i] = HeaderBlock ]_vars

C16_Witness ==
    /\ history = <<CmdPwd, CmdClear>>
    /\ clihistory = <<HeaderBlock>>
    /\ text = CmdClear

\* the candidate path of a cd line: current directory, "/", target
CdCandidate == directory \o <<"/">> \o Drop(input, 3)

\* C17: the current directory changes only in a successful cd: the step is
\* the enter key on a cd line whose target is ".." or whose candidate path
\* is a directory; every other line and every other event leaves it alone.
C17_OnlyCdChangesDirectory ==
    [][ directory' # directory
          => /\ ShellEnter
             /\ HasPrefix(input, CdPrefix)
             /\ \/ Drop(input, 3) = DotDot
                \/ validatePath(CdCandidate) /\ directory' = CdCandidate ]_vars

C17_Witness ==
    /\ history = <<LineCdA, CmdPwd>>
    /\ directory = <<".", "/", "a">>
    /\ historyIndex = 0
    /\ ~fileViewMode

\* C18: a cd whose target is not ".." and does not start with a dot is
\* accepted exactly when the candidate path (current directory, "/", target)
\* exists and is a directory, and the directory then becomes that candidate;
\* otherwise the directory is unchanged and the transcript gains a block
\* naming the target.
C18_CdValidatesCandidate ==
    [][ (/\ ShellEnter
         /\ HasPrefix(input, CdPrefix)
         /\ Drop(input, 3) # DotDot
         /\ ~HasPrefix(Drop(input, 3), <<".">>))
          => IF Resolve(CdCandidate) \in Dirs
             THEN directory' = CdCandidate
             ELSE /\ directory' = directory
                  /\ clihistory' = Append(clihistory, InvalidDirMsg \o Drop(input, 3)) ]_vars

C18_Witness ==
    /\ history = <<LineCdA, LineCdF>>
    /\ directory = <<".", "/", "a">>
    /\ text = InvalidDirMsg \o NameF
    /\ Last(clihistory) = text

\* the names of a list that have the final token of the input as a
\* case-insensitive prefix
Candidates(names) ==
    { names[i] : i \in { j \in 1..Len(names) :
                           HasPrefix(ToLower(names[j]), ToLower(Last(Fields(input)))) } }

EntryCandidates == Candidates(fileautocomplete(directory))

CommandCandidates == Candidates(commandautocomplete)

\* C19: tab completion prefers an entry of the current directory to any
\* command name, and within one category picks a shortest name: with entry
\* config.go, command contact and token co the result is config.go.
C19_EntryThenShortest ==
    [][ (Tab /\ Fields(input) # <<>>)
          => LET chosen == Last(Fields(input'))
             IN  IF EntryCandidates # {}
                 THEN /\ chosen \in EntryCandidates
                      /\ \A e \in EntryCandidates : Len(chosen) <= Len(e)
                 ELSE CommandCandidates # {}
                        => /\ chosen \in CommandCandidates
                           /\ \A c \in CommandCandidates : Len(chosen) <= Len(c) ]_vars

C19_Witness ==
    /\ history = <<LineCdP>>
    /\ directory = <<".", "/", "p">>
    /\ input = NameConfig

\* the position at which the final token of s starts
FinalTokenStart(s) ==
    CHOOSE k \in 1..Len(s) :
        /\ ~IsSpace(s[k])
        /\ k = 1 \/ IsSpace(s[k - 1])
        /\ \A j \in (k + 1)..Len(s) : IsSpace(s[j]) => \A i \in j..Len(s) : IsSpace(s[i])

\* C20: when the input holds several tokens, the tab key leaves everything
\* before the final token as it was, character for character.
C20_PrefixPreserved ==
    [][ (Tab /\ Len(Fields(input)) > 1)
          => Take(input', FinalTokenStart(input) - 1)
               = Take(input, FinalTokenStart(input) - 1) ]_vars

\* the names tab completion may offer: the command names and the entries of
\* the current directory that do not start with a dot
OfferedNames ==
    { commandautocomplete[i] : i \in 1..Len(commandautocomplete) }
      \cup { ReadDir(directory)[i].name :
               i \in { j \in 1..Len(ReadDir(directory)) :
                         ReadDir(directory)[j].name[1] # "." } }

\* the offered names that have the final token of the input as a
\* case-insensitive prefix
MatchingNames ==
    { n \in OfferedNames : HasPrefix(ToLower(n), ToLower(Last(Fields(input)))) }

\* C21: whenever the tab key completes the final token, the result is a
\* command name or a non-hidden entry of the current directory and has the
\* token as a case-insensitive prefix; a dot-prefixed entry is never chosen.
C21_CompletionFromCandidates ==
    [][ (Tab /\ Fields(input) # <<>> /\ (input' # input \/ MatchingNames # {}))
          => /\ Last(Fields(input')) \in MatchingNames
             /\ Last(Fields(input'))[1] # "." ]_vars

C21_Witness ==
    /\ history = <<LineCdQ>>
    /\ directory = <<".", "/", "q">>
    /\ input = CatPrefix \o NameCb

Recognized(line) ==
    \/ line \in { CmdLs, CmdHelp, CmdClear, CmdJoke, CmdPwd, CmdExit, CmdWhoami, CmdDate,
                  CmdNeofetch, CmdVersion, CmdSkills, CmdContact }
    \/ \E p \in { CdPrefix, CatPrefix, WikiPrefix, EchoPrefix } : HasPrefix(line, p)
    \/ /\ variant = "fred"
       /\ \/ line = CmdCoinflip
          \/ HasPrefix(line, QrPrefix)
          \/ HasPrefix(line, YodaPrefix)

\* C23: a submitted non-empty line that is no exact command and starts with
\* no argument prefix yields the unknown-command block, which is the line
\* itself followed by the fixed message, and changes neither the directory
\* nor the pager mode.
C23_UnknownCommandBlock ==
    [][ (ShellEnter /\ input # <<>> /\ ~Recognized(input))
          => /\ text' = input \o UnknownMsg
             /\ clihistory' = Append(clihistory, input \o UnknownMsg)
             /\ UNCHANGED <<directory, fileViewMode>> ]_vars

C23_Witness ==
    /\ history = <<LineCdA, LineUnknown>>
    /\ text = LineUnknown \o UnknownMsg
    /\ Last(clihistory) = text
    /\ directory = <<".", "/", "a">>

\* C24: submitting the empty line is a no-op: it does not go to the
\* unknown-command fallback.
C24_EmptyLineNoFallback ==
    [][ (ShellEnter /\ input = <<>>)
          => /\ text' # UnknownMsg
             /\ (clihistory' # clihistory => Last(clihistory') # UnknownMsg) ]_vars

\* the enter key of either shell, in the error model
SessionEnter == Enter(MaxSess) \/ PortfolioEnter(MaxSess)

\* C25: the enter key ends the session exactly when the line is exit; an
\* invalid path, a denied hidden path, a read failure, a network failure or
\* an unknown command leaves the shell running with an empty input line, in
\* normal mode, ready for the next command.
C25_OnlyExitEndsSession ==
    [][ SessionEnter
          => /\ quit' <=> input = CmdExit
             /\ input \in { LineCdF, LineCdH, LineCatX, CmdJoke, LineWikiX, LineUnknown }
                  => ~quit' /\ ~fileViewMode' /\ input' = <<>> ]_vars

C25_Witness ==
    /\ history = <<LineCatX, LineCdH>>
    /\ ~quit
    /\ ~fileViewMode
    /\ input = <<>>
    /\ text = (IF variant = "fred" THEN HiddenDirMsg ELSE InvalidDirMsg \o NameH)

\* C26: the enter step that submits joke or wiki only dispatches the network
\* call: the response (the joke, the summary or the fetch error) is not in
\* the session when the step is over, it arrives with a later event.
C26_NetworkCallDetached ==
    [][ (SessionEnter /\ (input = CmdJoke \/ input = LineWikiX))
          => text' \notin JokeTexts \cup WikiTexts ]_vars

\* C29: ctrl+c and q end the program in normal mode and while the pager is
\* open.
C29_QuitKeysQuit ==
    [][ (CtrlC \/ FileViewKey("ctrl+c") \/ FileViewDismiss("q")) => quit' ]_vars

\* the viewport shows the last lines of its content (viewport.AtBottom)
AtBottom(vp) == vp.YOffset >= maxYOffset(vp)

\* the enter key of either shell, in the scrollback model
ScrollEnter == Enter(MaxScroll) \/ PortfolioEnter(MaxScroll)

\* C28: after every command the enter key runs, the scrollback viewport shows
\* the bottom of the transcript; the history keys leave the viewport where it
\* is, and a page key moves it in its direction only, never back to the bottom.
C28_BottomAfterEnter ==
    [][ /\ (ScrollEnter /\ ~quit') => AtBottom(viewport')
        /\ (Up \/ Down \/ PortfolioUp \/ PortfolioDown)
              => viewport'.YOffset = viewport.YOffset
        /\ PageKey("pgup") => viewport'.YOffset <= viewport.YOffset
        /\ PageKey("pgdown") => viewport'.YOffset >= viewport.YOffset ]_vars

\* C30: in the Wikipedia CLI the esc key pressed while the results are shown
\* returns to the search input without ending the program; the enter key
\* pressed at the search input, while no search is running, starts a search
\* for the typed query; and the q key ends the program in every state.
C30_WikiKeys ==
    [][ /\ (WikiEsc /\ showViewport)
              => ~showViewport' /\ ~quit' /\ UNCHANGED <<input, query, content, searching>>
        /\ (WikiEnter /\ ~showViewport /\ ~searching)
              => searching' /\ query' = input /\ pending' = Append(pending, input)
        /\ WikiQuit("q") => quit' ]_vars

C30_Witness ==
    /\ ~quit /\ ~showViewport /\ ~searching
    /\ ready /\ content.lines > 0
    /\ query = <<"a">>
    /\ viewport.YOffset > 0

\* C27: the connections of the server are independent: a new connection runs
\* on a model of its own, equal to initialModel, and no event one connection
\* handles changes the directory, history, history cursor, transcript, pager
\* state, viewport or input of the other connection.
C27_SessionsIndependent ==
    [][ /\ teaHandler => (peer' = <<initialModel>> /\ Model' = Model)
        /\ Schedule => (Model' = peer[1] /\ peer' = <<Model>>)
        /\ (session' = session /\ peer # <<>>) => peer' = peer ]_vars

C27_Witness ==
    /\ session = 2 /\ peer # <<>>
    /\ Len(history) = 1 /\ directory = StartingPath
    /\ Len(peer[1].history) = 1 /\ peer[1].directory # StartingPath
    /\ input # <<>>

\* C37: in the Wikipedia CLI at most one search is outstanding; the enter key
\* pressed while a search is running or while the results are shown issues no
\* search and changes nothing; and a result message that carries an error
\* ends the search and leaves the program at the search input, the viewport
\* not shown.
C37_OneSearchOutstanding ==
    [][ /\ Len(pending') <= 1
        /\ (WikiEnter /\ (searching \/ showViewport)) => UNCHANGED vars
        /\ pending # <<>> =>
              \A r \in SearchResults(Head(pending)) :
                  (r.err /\ WikiResult(r))
                     => /\ ~searching' /\ ~showViewport'
                        /\ UNCHANGED <<content, viewport, ready, input>> ]_vars

C37_Witness ==
    /\ ~quit /\ ~searching /\ ~showViewport
    /\ pending = <<>> /\ query = <<"a">>
    /\ ~ready /\ content = EmptyContent

\* the last submitted line was a cd to a target other than "..", and the
\* shell accepted it: m.text still holds the line
CdAccepted ==
    /\ history # <<>>
    /\ text = Last(history)
    /\ HasPrefix(text, CdPrefix)
    /\ Drop(text, 3) # DotDot

\* C38: cd X and cd .. are inverse in the file-picker shell: when cd X has
\* been accepted from the directory D and the next submitted line is cd ..,
\* the current directory is D again, whatever the accepted target X is.
C38_CdUpInverse ==
    [][ (SubmittedInput /\ input = LineCdUp /\ CdAccepted)
          => directory' \o <<"/">> \o Drop(text, 3) = directory ]_vars

\* C39: tab completion is idempotent: the tab key pressed again on the line
\* a first tab produced, in the same directory, leaves that line as it is.
C39_TabIdempotent ==
    [][ Tab => Completed(input', directory) = input' ]_vars

\* the step completes the streaming of session s and stores the assistant
\* message in its chat history
StoresReply(s) ==
    /\ ChatStreamUpdate(s)
    /\ isStreaming[s] /\ ~isStreaming'[s]
    /\ Len(chatHistory'[s]) = Len(chatHistory[s]) + 1

\* every chunk of the text was streamed for question n of session s
StreamedFor(reply, s, n) ==
    \A i \in 1..Len(reply) : reply[i].session = s /\ reply[i].question = n

\* C31: the assistant message the chat CLI stores when the stream of question
\* N completes holds only content streamed in response to question N,
\* however the reset of the shared buffer and flag by the start command, the
\* streaming callbacks and the tick messages interleave.
C31_ReplyOfOwnQuestion ==
    [][ StoresReply(1)
          => StreamedFor(Last(chatHistory'[1]).Content, 1, UserCount(chatHistory[1])) ]_vars

\* C32: in the chat server the response a session displays and the reply it
\* stores in its chat history hold only content streamed for that session's
\* own request, never content of the request of another session.
C32_OwnSessionOnly ==
    \A s \in ChatSessions :
        /\ \A i \in 1..Len(response[s]) : response[s][i].session = s
        /\ \A k \in 1..Len(chatHistory[s]) :
              chatHistory[s][k].Role = "assistant"
                 => \A i \in 1..Len(chatHistory[s][k].Content) :
                        chatHistory[s][k].Content[i].session = s

\* a completion request of session s is in flight: its command has not run
\* yet, or its stream has not ended
InFlight(s) ==
    { c \in cmds : c.session = s } \cup { st \in streams : st.session = s }

\* the step is the enter key of session s on the password screen
PasswordEnter(s) == ChatEnter(s, MaxServAsk) /\ ~authenticated[s]

\* C33: in the chat server no question is submitted before authentication: a
\* session with a non-empty chat history or a completion request in flight
\* is authenticated; a session becomes authenticated only by the enter key
\* with the password input equal to the server password, and never loses
\* it; the enter key with a wrong password empties the password input, sets
\* authFailed and changes nothing else.
C33_AuthenticatedFirst ==
    [][ \A s \in ChatSessions :
          /\ (chatHistory'[s] # <<>> \/ InFlight(s)' # {}) => authenticated'[s]
          /\ authenticated[s] => authenticated'[s]
          /\ (~authenticated[s] /\ authenticated'[s])
                => PasswordEnter(s) /\ passwordInput[s] = serverPassword
          /\ (PasswordEnter(s) /\ passwordInput[s] # serverPassword)
                => /\ passwordInput'[s] = <<>>
                   /\ authFailed'[s]
                   /\ ~authenticated'[s]
                   /\ UNCHANGED <<textInput, submitted, isStreaming, showResponse,
                                  response, chatHistory, closed, globalResponse,
                                  isStreamComplete, cmds, streams, updates>>
                   /\ \A t \in ChatSessions \ {s} :
                         /\ passwordInput'[t] = passwordInput[t]
                         /\ authFailed'[t] = authFailed[t]
                         /\ authenticated'[t] = authenticated[t] ]_vars

C33_Witness ==
    /\ variant = "chatserver"
    /\ authenticated[1] /\ ~authFailed[1]
    /\ Len(chatHistory[1]) = 2
    /\ ~authenticated[2] /\ authFailed[2] /\ passwordInput[2] = <<>>

\* C34: in the chat CLI at most one completion request is in flight: the
\* enter key pressed while a response is streaming starts no request and
\* appends nothing to the chat history, and submitted equals isStreaming in
\* every state.
C34_OneRequestInFlight ==
    [][ /\ Cardinality(InFlight(1)') <= 1
        /\ submitted'[1] = isStreaming'[1]
        /\ (ChatEnter(1, MaxAsk) /\ isStreaming[1]) => UNCHANGED <<cmds, chatHistory>> ]_vars

\* the tick chains one question starts: tickCmd of the batch of the enter
\* key, and the tick scheduled when the message "started" is handled
ChainsPerQuestion == 2

\* C35: polling ends with the stream: a streamUpdateMsg handled while the
\* chat CLI is not streaming schedules no new tick, and the number of tick
\* chains pending at the same time does not grow from question to question:
\* it never exceeds the chains one question starts.
C35_PollingTerminates ==
    [][ /\ (ChatStreamUpdate(1) /\ ~isStreaming[1]) => updates'[1] = updates[1] - 1
        /\ updates'[1] <= ChainsPerQuestion ]_vars

\* the commands the step issues
Issued == cmds' \ cmds

\* C36: the message list sent for a question is the system prompt, then the
\* exchanges before the question, then the question, once.
C36_QuestionSentOnce ==
    [][ \A c \in Issued :
          Messages(c.question, c.chatHistory)
             = <<systemPrompt>> \o chatHistory[c.session]
                  \o <<UserMessage(textInput[c.session])>> ]_vars

\* the position of a state in StateGetURL, StateChecking, StateDone
Rank(st) == IF st = "StateGetURL" THEN 0 ELSE IF st = "StateChecking" THEN 1 ELSE 2

\* the steps of the HTTP status checker never go back to an earlier state; a
\* check is issued only by the enter key in StateGetURL, at most once; in
\* StateChecking every key but ctrl+c changes nothing; the message of a
\* check moves the model to StateDone
HttpSteps ==
    [][ /\ Rank(state') >= Rank(state)
        /\ Len(checks') <= 1
        /\ checks' # checks /\ checks' # <<>>
              => HttpEnter /\ state = "StateGetURL" /\ checks' = <<input>>
        /\ (state = "StateChecking" /\ (HttpEnter \/ \E k \in UrlKeys : HttpKey(k)))
              => UNCHANGED vars
        /\ HttpResult => state' = "StateDone" /\ checks' = <<>> ]_vars

\* C40: the state of the HTTP status checker only moves forward, StateGetURL,
\* StateChecking, StateDone: one check is issued, by the enter key in
\* StateGetURL; while checking only ctrl+c has an effect; the message of the
\* check moves the model to StateDone, and nothing leads back from there;
\* and every issued check delivers its message, unless ctrl+c ends the
\* program first.
C40_CheckDeliveredUnlessQuit ==
    /\ HttpSteps
    /\ (state = "StateChecking") ~> (state = "StateDone" \/ quit)

\* C40 as stated: every issued check delivers its message and the model
\* reaches StateDone.
C40_CheckDelivered ==
    /\ HttpSteps
    /\ (state = "StateChecking") ~> (state = "StateDone")

C40_Witness ==
    /\ state = "StateDone" /\ status = 404 /\ ~err
    /\ input = <<"a", "b">> /\ checks = <<>> /\ ~quit

====
